---- MODULE Spec2Model ----
(***************************************************************************)
(* State-machine model of the solana-nft-staking-vault program            *)
(* (programs/solana-nft-staking-vault/src/lib.rs).                         *)
(*                                                                         *)
(* One action per instruction handler.  For each handler an operator of   *)
(* the same name gives the outcome of a call in the current state: the     *)
(* error it returns ("Ok" on success) and the account contents it writes.  *)
(* An instruction is atomic: when the handler returns an error the runtime *)
(* discards every account write of the transaction, so a failing call      *)
(* leaves the state as it was: it is no step of the model, and the error   *)
(* it returns is read from the outcome operator.  The Anchor account       *)
(* constraints of an instruction (#[derive(Accounts)]) are stated apart    *)
(* from the handler body, which runs only when they hold.                  *)
(***************************************************************************)
EXTENDS Integers, FiniteSets, Sequences, TLC

----------------------------------------------------------------------------
(* Bounds of the model *)

\* number of clock advances explored
MaxTicks == 3
\* longest time after initialize_vault the clock is advanced to
MaxHorizon == 180000
\* a positive clock value at deployment
T0 == 1000000
\* number of clock advances explored with the pause switch
MaxPauseTicks == 2
\* number of clock advances explored under governance
MaxGovTicks == 4
\* number of clock advances and of on_success / on_failure calls explored for
\* the circuit breaker
MaxBreakerTicks == 2
MaxCalls == 20
\* number of clock advances explored for the daily limits
MaxLimitTicks == 2
\* number of clock advances explored on the aged ledger
MaxAgedTicks == 3

----------------------------------------------------------------------------
(* Program constants *)

STAKE_COOLDOWN == 300
CLAIM_COOLDOWN == 60
MAX_TIME_ELAPSED == 172800
MAX_REWARD_WINDOW == 86400
SECONDS_PER_DAY == 86400
FAILURE_THRESHOLD == 10
RESET_TIMEOUT == 600
MAX_STAKES_PER_DAY == 100
MAX_CLAIMS_PER_DAY == 50
MAX_TOTAL_REWARDS_PER_DAY == 1000000000
INITIAL_VERSION == 1

----------------------------------------------------------------------------
(* Identities, items and inputs *)

Users == {"u1", "u2"}
Admins == {"sa", "ad", "mo", "op"}
Identities == Users \cup Admins
VaultPda == "vault"

RoleNames == {"SuperAdmin", "Admin", "Moderator", "Operator"}
\* "NoRecord": the AccountRole account of the identity does not exist
NoRecord == "NoRecord"

\* The role accounts of the program's deployment: none.  No instruction
\* creates the first AccountRole account (grant_role needs the granter's).
NoRoles == [a \in Identities |-> NoRecord]
\* Role accounts that the ledger holds before the program's first
\* instruction, put there by other means than the program's instructions
\* (accounts loaded into a test ledger).  They are an input of the
\* specifications of the role-gated instructions only, next to NoRoles.
PreloadedRoles ==
    [a \in Identities |->
        CASE a = "sa" -> "SuperAdmin"
          [] a = "ad" -> "Admin"
          [] a = "mo" -> "Moderator"
          [] a = "op" -> "Operator"
          [] OTHER -> NoRecord]

Collections == {"c1", "c2"}
\* genuine collection items, and items a stake must reject
Nfts == {"n1", "n2"}
BadItems == {"f1", "m0", "m1"}
Items == Nfts \cup BadItems

\* nft_mint.decimals
ItemDecimals(i) == IF i = "f1" THEN 6 ELSE 0
\* nft_metadata.collection : Option<Collection { verified, key }>
ItemCollection(i) ==
    CASE i = "m0" -> [some |-> FALSE, verified |-> FALSE, key |-> "c1"]
      [] i = "m1" -> [some |-> TRUE, verified |-> FALSE, key |-> "c1"]
      [] OTHER -> [some |-> TRUE, verified |-> TRUE, key |-> "c1"]

\* Option<u64> / Option<Pubkey> arguments
NoneOf(z) == [some |-> FALSE, val |-> z]
SomeOf(x) == [some |-> TRUE, val |-> x]

----------------------------------------------------------------------------
VARIABLES
    vault,          \* VaultAccount
    user_stake,     \* UserStakeAccount of each user
    roles,          \* AccountRole.role of each identity's role account
    role_user,      \* AccountRole.user of each identity's role account
    mint_authority, \* mint authority of the reward token mint
    minted,         \* reward tokens minted to each user
    holder,         \* owner of the token account that holds each item
    vault_ata,      \* items whose vault token account has been created
    now,            \* Clock::get().unix_timestamp
    ticks,          \* clock advances so far
    item_seconds,   \* seconds x staked items each user has accumulated
    depositor,      \* the user whose stake_nft last put each item in custody
    result,         \* the last stake_nft, unstake_nft or claim_rewards that
                    \* succeeded: its name, its signer, and the vault's and
                    \* the signer's staked counts it started from
    gov,            \* what governance has decided: the subjects whose role
                    \* has been revoked and not granted since, and the time
                    \* and timelock of the proposal that is pending
    overflow_checks,\* the build profile: TRUE when the program is compiled
                    \* with overflow-checks (an unchecked + that overflows
                    \* panics), FALSE when it is not (it wraps)
    calc            \* the arguments and results of the arithmetic functions
                    \* applied on their own

vars == <<vault, user_stake, roles, role_user, mint_authority, minted, holder,
          vault_ata, now, ticks, item_seconds, depositor, result, gov,
          overflow_checks, calc>>

ledger == <<vault, user_stake, roles, role_user, mint_authority, minted, holder,
            vault_ata>>

----------------------------------------------------------------------------
(* Integers.  u64 and i64 values that arithmetic produces leave the range  *)
(* of TLC's integers, so the arithmetic is carried out on decimal digits:   *)
(* a wide value is five digits of base 10^4, the most significant first    *)
(* (<<1844, 6744, 737, 955, 1615>> is 18446744073709551615).  The u32 and  *)
(* u64 fields of the accounts hold wide values, so that every value of the  *)
(* type can stand in them; the clock and the timestamps taken from it are   *)
(* plain integers.  Wide and Narrow convert.  A u32 widened with `as u64`   *)
(* keeps its digits.                                                        *)

Wide(n) ==
    <<(n \div 100000000) \div 100000000,
      ((n \div 100000000) \div 10000) % 10000,
      (n \div 100000000) % 10000,
      (n \div 10000) % 10000,
      n % 10000>>

Narrow(w) ==
    (((w[1] * 10000 + w[2]) * 10000 + w[3]) * 10000 + w[4]) * 10000 + w[5]

Zero == <<0, 0, 0, 0, 0>>
One == <<0, 0, 0, 0, 1>>

LtW(a, b) ==
    \/ a[1] < b[1]
    \/ a[1] = b[1] /\ \/ a[2] < b[2]
                      \/ a[2] = b[2] /\ \/ a[3] < b[3]
                                        \/ a[3] = b[3] /\ \/ a[4] < b[4]
                                                          \/ a[4] = b[4] /\ a[5] < b[5]

LeqW(a, b) == ~LtW(b, a)

\* The digits that the columns cols[1] .. cols[i] leave once each carry (or
\* borrow) c has moved one column to the left, behind the carry out of the
\* first column
RECURSIVE Carry(_, _, _)
Carry(cols, i, c) ==
    IF i = 0 THEN <<c>>
    ELSE Append(Carry(cols, i - 1, (cols[i] + c) \div 10000),
                (cols[i] + c) % 10000)

\* a + b: the five low digits of the sum, and the carry out of them
AddW(a, b) ==
    LET digits(d) == [carry |-> d[1], sum |-> SubSeq(d, 2, 6)]
    IN digits(Carry(<<a[1] + b[1], a[2] + b[2], a[3] + b[3], a[4] + b[4],
                      a[5] + b[5]>>, 5, 0))

\* a - b, for b <= a
SubW(a, b) ==
    SubSeq(Carry(<<a[1] - b[1], a[2] - b[2], a[3] - b[3], a[4] - b[4],
                   a[5] - b[5]>>, 5, 0), 2, 6)

\* a * b: the five high and the five low digits of the product.  A column
\* holds the products of the digits whose weights multiply to its weight
MulW(a, b) ==
    LET digits(d) == [hi |-> SubSeq(d, 2, 6), lo |-> SubSeq(d, 7, 11)]
    IN digits(Carry(
           <<0,
             a[1] * b[1],
             a[1] * b[2] + a[2] * b[1],
             a[1] * b[3] + a[2] * b[2] + a[3] * b[1],
             a[1] * b[4] + a[2] * b[3] + a[3] * b[2] + a[4] * b[1],
             a[1] * b[5] + a[2] * b[4] + a[3] * b[3] + a[4] * b[2] + a[5] * b[1],
             a[2] * b[5] + a[3] * b[4] + a[4] * b[3] + a[5] * b[2],
             a[3] * b[5] + a[4] * b[4] + a[5] * b[3],
             a[4] * b[5] + a[5] * b[4],
             a[5] * b[5]>>, 10, 0))

\* the ends of the integer types
U32_MAX == <<0, 0, 42, 9496, 7295>>
U64_MAX == <<1844, 6744, 737, 955, 1615>>
I64_MAX == <<922, 3372, 368, 5477, 5807>>

\* Result<T>: the error ("Ok" on success) and the value; a failure carries
\* the value that stays in place
Ok(x) == [err |-> "Ok", val |-> x]
Fail(e, x) == [err |-> e, val |-> x]
Err(e) == Fail(e, Zero)

\* u64::checked_add(..).ok_or(ErrorCode::MathOverflow), on wide values
checked_add(a, b) ==
    LET in_range(s) ==
            IF s.carry = 0 /\ LeqW(s.sum, U64_MAX) THEN Ok(s.sum)
            ELSE Err("MathOverflow")
    IN in_range(AddW(a, b))

\* u64::checked_mul(..).ok_or(ErrorCode::MathOverflow), on wide values
checked_mul(a, b) ==
    LET in_range(p) ==
            IF p.hi = Zero /\ LeqW(p.lo, U64_MAX) THEN Ok(p.lo)
            ELSE Err("MathOverflow")
    IN in_range(MulW(a, b))

\* x as u64, for x an i64: a negative x becomes x + 2^64
as_u64(x) == IF x >= 0 THEN Wide(x) ELSE SubW(U64_MAX, Wide((-x) - 1))

\* a + b on u64 written with the plain operator: when the sum leaves the
\* range the program panics if it was built with overflow-checks, and
\* continues with the sum modulo 2^64 if it was not
add_u64(a, b) ==
    LET in_range(s) ==
            IF s.carry = 0 /\ LeqW(s.sum, U64_MAX) THEN Ok(s.sum)
            ELSE IF overflow_checks THEN Err("Panic")
            ELSE Ok(SubW(SubW(s.sum, U64_MAX), One))
    IN in_range(AddW(a, b))

\* u32::checked_add(..).ok_or(ErrorCode::MathOverflow)
checked_add_u32(a, b) ==
    LET in_range(s) ==
            IF LeqW(s.sum, U32_MAX) THEN Ok(s.sum) ELSE Err("MathOverflow")
    IN in_range(AddW(a, b))

\* u32::checked_sub(..).ok_or(ErrorCode::MathUnderflow)
checked_sub_u32(a, b) ==
    IF LeqW(b, a) THEN Ok(SubW(a, b)) ELSE Err("MathUnderflow")

\* u32::saturating_sub
saturating_sub(a, b) == IF LeqW(b, a) THEN SubW(a, b) ELSE Zero

\* a + b on u32 written with the plain operator
add_u32(a, b) ==
    LET in_range(s) ==
            IF LeqW(s.sum, U32_MAX) THEN Ok(s.sum)
            ELSE IF overflow_checks THEN Err("Panic")
            ELSE Ok(SubW(SubW(s.sum, U32_MAX), One))
    IN in_range(AddW(a, b))

\* An i64 as its sign and the wide value of its magnitude
I64(n) == [neg |-> n < 0, mag |-> Wide(IF n < 0 THEN -n ELSE n)]

\* a >= b on i64
ge_i64(a, b) ==
    IF a.neg = b.neg
    THEN IF a.neg THEN LeqW(a.mag, b.mag) ELSE LeqW(b.mag, a.mag)
    ELSE b.neg

\* a + b on i64 written with the plain operator: a sum out of range panics
\* under overflow-checks and is taken modulo 2^64 without them
add_i64(a, b) ==
    LET two63 == AddW(I64_MAX, One).sum
        \* s: the sum of the magnitudes; 2^64 - s is what a sum out of range
        \* leaves, for 2^63 <= s <= 2^64
        in_range(s) ==
            IF LeqW(s, IF a.neg THEN two63 ELSE I64_MAX)
            THEN Ok([neg |-> a.neg, mag |-> s])
            ELSE IF overflow_checks THEN Fail("Panic", I64(0))
            ELSE Ok([neg |-> ~a.neg, mag |-> AddW(SubW(U64_MAX, s), One).sum])
    IN IF a.neg # b.neg
       THEN IF LeqW(b.mag, a.mag)
            THEN Ok([neg |-> a.neg /\ a.mag # b.mag, mag |-> SubW(a.mag, b.mag)])
            ELSE Ok([neg |-> b.neg, mag |-> SubW(b.mag, a.mag)])
       ELSE in_range(AddW(a.mag, b.mag).sum)

----------------------------------------------------------------------------
(* CircuitBreakerState *)

CircuitBreakerState_new ==
    [failure_count |-> Zero, last_failure_timestamp |-> 0, blocked |-> FALSE,
     total_transactions |-> Zero, failed_transactions |-> Zero]

\* mutation: a blocked breaker lets nothing through before the timeout
can_execute_strict(cb, current_timestamp) ==
    IF ~cb.blocked THEN TRUE
    ELSE current_timestamp - cb.last_failure_timestamp > RESET_TIMEOUT

\* mutation: the first success clears the block
on_success_clear(cb) ==
    Ok([cb EXCEPT !.total_transactions = AddW(@, One).sum,
                  !.failure_count = IF cb.blocked THEN saturating_sub(@, One)
                                    ELSE @,
                  !.blocked = FALSE])

can_execute(cb, current_timestamp) ==
    IF ~cb.blocked THEN TRUE
    ELSE IF current_timestamp - cb.last_failure_timestamp > RESET_TIMEOUT THEN TRUE
    ELSE LtW(cb.failure_count, Wide(FAILURE_THRESHOLD))

\* total_transactions += 1 is a plain + on u64
on_success(cb) ==
    LET recovered(c1, failure_count) ==
            IF failure_count = Zero
            THEN Ok([c1 EXCEPT !.failure_count = failure_count,
                               !.blocked = FALSE])
            ELSE Ok([c1 EXCEPT !.failure_count = failure_count])
        counted(total) ==
            IF total.err # "Ok" THEN Fail(total.err, cb)
            ELSE IF cb.blocked /\ LtW(Zero, cb.failure_count)
            THEN recovered([cb EXCEPT !.total_transactions = total.val],
                           saturating_sub(cb.failure_count, One))
            ELSE Ok([cb EXCEPT !.total_transactions = total.val])
    IN counted(add_u64(cb.total_transactions, One))

\* the three += 1 are plain +, on u64, u64 and u32
on_failure(cb, current_timestamp) ==
    LET counted(total, failed, count) ==
            IF total.err # "Ok" THEN Fail(total.err, cb)
            ELSE IF failed.err # "Ok" THEN Fail(failed.err, cb)
            ELSE IF count.err # "Ok" THEN Fail(count.err, cb)
            ELSE Ok([cb EXCEPT
                        !.total_transactions = total.val,
                        !.failed_transactions = failed.val,
                        !.failure_count = count.val,
                        !.last_failure_timestamp = current_timestamp,
                        !.blocked = IF LeqW(Wide(FAILURE_THRESHOLD), count.val)
                                    THEN TRUE ELSE @])
    IN counted(add_u64(cb.total_transactions, One),
               add_u64(cb.failed_transactions, One),
               add_u32(cb.failure_count, One))

----------------------------------------------------------------------------
(* DailyLimits *)

DailyLimits_new ==
    [max_stakes_per_day |-> Wide(MAX_STAKES_PER_DAY),
     max_claims_per_day |-> Wide(MAX_CLAIMS_PER_DAY),
     max_total_rewards_per_day |-> Wide(MAX_TOTAL_REWARDS_PER_DAY),
     stakes_today |-> Zero, claims_today |-> Zero,
     rewards_claimed_today |-> Zero, last_reset_timestamp |-> 0]

reset_if_new_day(dl, current_timestamp) ==
    IF current_timestamp - dl.last_reset_timestamp > SECONDS_PER_DAY
    THEN [dl EXCEPT !.stakes_today = Zero, !.claims_today = Zero,
                    !.rewards_claimed_today = Zero,
                    !.last_reset_timestamp = current_timestamp]
    ELSE dl

\* mutation: the quota admits one stake more
can_stake_le(dl) == LeqW(dl.stakes_today, dl.max_stakes_per_day)

\* mutation: the payout cap is not looked at
can_claim_count_only(dl, reward_amount) ==
    LtW(dl.claims_today, dl.max_claims_per_day)

can_stake(dl) == LtW(dl.stakes_today, dl.max_stakes_per_day)

\* The sum is a plain + on u64, evaluated only when the count is below its
\* cap (&&); a panic of the sum is reported by can_claim_panics
can_claim_panics(dl, reward_amount) ==
    /\ LtW(dl.claims_today, dl.max_claims_per_day)
    /\ add_u64(dl.rewards_claimed_today, reward_amount).err = "Panic"

can_claim(dl, reward_amount) ==
    LET within(rewards) ==
            rewards.err = "Ok" /\ LeqW(rewards.val, dl.max_total_rewards_per_day)
    IN /\ LtW(dl.claims_today, dl.max_claims_per_day)
       /\ within(add_u64(dl.rewards_claimed_today, reward_amount))

\* stakes_today += 1 is a plain + on u32
record_stake(dl) ==
    LET recorded(stakes) ==
            IF stakes.err # "Ok" THEN Fail(stakes.err, dl)
            ELSE Ok([dl EXCEPT !.stakes_today = stakes.val])
    IN recorded(add_u32(dl.stakes_today, One))

\* claims_today += 1 and rewards_claimed_today += reward_amount are plain +,
\* on u32 and on u64
record_claim(dl, reward_amount) ==
    LET recorded(claims, rewards) ==
            IF claims.err # "Ok" THEN Fail(claims.err, dl)
            ELSE IF rewards.err # "Ok" THEN Fail(rewards.err, dl)
            ELSE Ok([dl EXCEPT !.claims_today = claims.val,
                               !.rewards_claimed_today = rewards.val])
    IN recorded(add_u32(dl.claims_today, One),
                add_u64(dl.rewards_claimed_today, reward_amount))

----------------------------------------------------------------------------
(* Role *)

\* mutation: every role may pause
can_pause_vault_any(role) == role \in RoleNames

\* mutation: Admin may manage roles too
can_manage_roles_admin(role) == role \in {"SuperAdmin", "Admin"}

can_pause_vault(role) == role \in {"SuperAdmin", "Admin", "Moderator"}
can_update_config(role) == role \in {"SuperAdmin", "Admin"}
can_manage_roles(role) == role = "SuperAdmin"
can_manage_upgrades(role) == role \in {"SuperAdmin", "Admin"}

----------------------------------------------------------------------------
(* calculate_rewards: [err, val], on an i64 and two u64 values *)

\* mutation: the staked count is left out of the product
calculate_rewards_flat(time_elapsed, reward_rate_per_second, staked_nfts) ==
    IF ~(time_elapsed >= 0 /\ time_elapsed <= MAX_TIME_ELAPSED)
    THEN Err("InvalidTimeElapsed")
    ELSE checked_mul(as_u64(time_elapsed), reward_rate_per_second)

\* mutation: the window of the elapsed time is not checked
calculate_rewards_no_window(time_elapsed, reward_rate_per_second, staked_nfts) ==
    LET by_count(per_nft) ==
            IF per_nft.err # "Ok" THEN per_nft
            ELSE checked_mul(per_nft.val, staked_nfts)
    IN by_count(checked_mul(as_u64(time_elapsed), reward_rate_per_second))

calculate_rewards(time_elapsed, reward_rate_per_second, staked_nfts) ==
    LET by_count(per_nft) ==
            IF per_nft.err # "Ok" THEN per_nft
            ELSE checked_mul(per_nft.val, staked_nfts)
    IN IF ~(time_elapsed >= 0 /\ time_elapsed <= MAX_TIME_ELAPSED)
       THEN Err("InvalidTimeElapsed")
       ELSE by_count(checked_mul(as_u64(time_elapsed), reward_rate_per_second))

----------------------------------------------------------------------------
(* Accounts before initialisation (zeroed) *)

\* scheduled_timestamp is kept as an I64: the sum that sets it can leave the
\* range of TLC's integers
NoPendingUpgrade == [some |-> FALSE, new_version |-> 0,
                     scheduled_timestamp |-> I64(0), proposer |-> "none"]

VaultUninit ==
    [initialized |-> FALSE, authority |-> "none", total_staked |-> Zero,
     reward_rate_per_second |-> Zero, collection_mint |-> "none", paused |-> FALSE,
     last_update_timestamp |-> 0, upgrade_authority |-> "none", version |-> 0,
     upgrade_locked |-> FALSE, pending_upgrade |-> NoPendingUpgrade,
     circuit_breaker |-> CircuitBreakerState_new, daily_limit |-> DailyLimits_new]

UserStakeUninit ==
    [exists |-> FALSE, staked_nfts |-> Zero, pending_rewards |-> Zero,
     last_update_timestamp |-> 0]

Result(op, caller, total_staked, staked_nfts) ==
    [op |-> op, caller |-> caller, total_staked |-> total_staked,
     staked_nfts |-> staked_nfts]

Gov(revoked, proposed_at, timelock) ==
    [revoked |-> revoked, proposed_at |-> proposed_at, timelock |-> timelock]

NoGov == Gov({}, 0, I64(0))

\* calc before any function has been applied on its own
NoOut == [err |-> "none", val |-> Zero]
NoCalc == [time_elapsed |-> 0, reward_rate_per_second |-> Zero,
           staked_nfts |-> Zero, rewards |-> NoOut]

\* the state before initialize_vault, at clock value t; a role account that
\* exists records the identity its address is derived from
Genesis(t, role_accounts) ==
    /\ vault = VaultUninit
    /\ user_stake = [u \in Users |-> UserStakeUninit]
    /\ roles = role_accounts
    /\ role_user = [a \in Identities |->
                       IF role_accounts[a] # NoRecord THEN a ELSE "none"]
    /\ mint_authority = "sa"
    /\ minted = [u \in Users |-> 0]
    /\ holder \in {h \in [Items -> Users] :
                     /\ h["n1"] = "u1"
                     /\ \A i \in BadItems : h[i] = "u1"}
    /\ vault_ata = {}
    /\ now = t
    /\ ticks = 0
    /\ item_seconds = [u \in Users |-> 0]
    /\ depositor = [i \in Items |-> "none"]
    /\ result = Result("none", "none", Zero, Zero)
    /\ gov = NoGov

\* No sum of the ledger's bounds leaves the range, so the two build profiles
\* behave alike there and one of them is carried.
Deploy(t, role_accounts) ==
    /\ Genesis(t, role_accounts)
    /\ overflow_checks = FALSE
    /\ calc = NoCalc

Init == Deploy(T0, NoRoles)

----------------------------------------------------------------------------
(* initialize_vault *)

initialize_vault_state(authority, reward_rate_per_second, collection_mint, t) ==
    [initialized |-> TRUE, authority |-> authority, total_staked |-> Zero,
     reward_rate_per_second |-> reward_rate_per_second,
     collection_mint |-> collection_mint, paused |-> FALSE,
     last_update_timestamp |-> t, upgrade_authority |-> authority,
     version |-> INITIAL_VERSION, upgrade_locked |-> FALSE,
     pending_upgrade |-> NoPendingUpgrade,
     circuit_breaker |-> CircuitBreakerState_new, daily_limit |-> DailyLimits_new]

\* token::set_authority succeeds only for the mint's current authority; the
\* re-read of the mint then finds the vault as its authority
initialize_vault(a, rate, coll) ==
    LET err == IF ~LtW(Zero, rate) THEN "InvalidRewardRate"
               ELSE IF mint_authority # a THEN "OwnerMismatch"
               ELSE "Ok"
    IN [err |-> err,
        vault |-> IF err = "Ok" THEN initialize_vault_state(a, rate, coll, now)
                  ELSE vault,
        mint_authority |-> IF err = "Ok" THEN VaultPda ELSE mint_authority]

\* constraint: init, the vault account does not exist yet
InitializeVaultAccounts == ~vault.initialized

InitializeVault(a, rate, coll) ==
    /\ InitializeVaultAccounts
    /\ \E o \in {initialize_vault(a, rate, coll)} :
          /\ o.err = "Ok"
          /\ vault' = o.vault
          /\ mint_authority' = o.mint_authority
          /\ UNCHANGED <<user_stake, roles, role_user, minted, holder,
                         vault_ata, now, ticks, item_seconds, depositor,
                         result, gov, overflow_checks, calc>>

----------------------------------------------------------------------------
(* stake_nft *)

stake_checks(v, dl, us, t, i) ==
    LET collection == ItemCollection(i)
    IN IF v.paused THEN "VaultPaused"
       ELSE IF ~can_execute(v.circuit_breaker, t) THEN "CircuitBreakerActive"
       ELSE IF ~can_stake(dl) THEN "DailyLimitExceeded"
       ELSE IF ItemDecimals(i) # 0 THEN "InvalidNft"
       ELSE IF ~collection.some THEN "NoCollectionFound"
       ELSE IF ~collection.verified THEN "CollectionNotVerified"
       ELSE IF collection.key # v.collection_mint THEN "WrongCollection"
       ELSE IF us.last_update_timestamp > 0
               /\ ~(t - us.last_update_timestamp >= STAKE_COOLDOWN)
            THEN "TooFrequent"
       ELSE "Ok"

\* mutation: a further stake does not accrue the time already staked
stake_accrue_skip(v, us, t) == Ok(us.pending_rewards)

\* the pending reward after the accrual
stake_accrue(v, us, t) ==
    LET added(rewards_earned) ==
            IF rewards_earned.err # "Ok" THEN rewards_earned
            ELSE checked_add(us.pending_rewards, rewards_earned.val)
    IN IF LtW(Zero, us.staked_nfts)
       THEN added(calculate_rewards(t - us.last_update_timestamp,
                                    v.reward_rate_per_second, us.staked_nfts))
       ELSE Ok(us.pending_rewards)

stake_user_update(us, pending, t) ==
    LET updated(staked_nfts) ==
            IF staked_nfts.err # "Ok" THEN Fail(staked_nfts.err, us)
            ELSE Ok([us EXCEPT !.exists = TRUE, !.pending_rewards = pending,
                               !.staked_nfts = staked_nfts.val,
                               !.last_update_timestamp = t])
    IN updated(checked_add_u32(us.staked_nfts, One))

stake_vault_update(v, dl) ==
    LET updated(total_staked, daily_limit, circuit_breaker) ==
            IF total_staked.err # "Ok" THEN Fail(total_staked.err, v)
            ELSE IF daily_limit.err # "Ok" THEN Fail(daily_limit.err, v)
            ELSE IF circuit_breaker.err # "Ok" THEN Fail(circuit_breaker.err, v)
            ELSE Ok([v EXCEPT !.total_staked = total_staked.val,
                              !.daily_limit = daily_limit.val,
                              !.circuit_breaker = circuit_breaker.val])
    IN updated(checked_add_u32(v.total_staked, One), record_stake(dl),
               on_success(v.circuit_breaker))

stake_nft(u, i) ==
    LET dl == reset_if_new_day(vault.daily_limit, now)
        us == user_stake[u]
        outcome(err, user, vlt) ==
            [err |-> err,
             user_stake |-> IF err = "Ok" THEN user.val ELSE us,
             vault |-> IF err = "Ok" THEN vlt.val ELSE vault]
        steps(chk, acc, user, vlt) ==
            outcome(IF chk # "Ok" THEN chk
                    ELSE IF acc.err # "Ok" THEN acc.err
                    ELSE IF user.err # "Ok" THEN user.err
                    ELSE vlt.err,
                    user, vlt)
        accrued(acc) ==
            steps(stake_checks(vault, dl, us, now, i), acc,
                  stake_user_update(us, acc.val, now),
                  stake_vault_update(vault, dl))
    IN accrued(stake_accrue(vault, us, now))

\* constraints: the vault exists; user_nft_token_account.owner == user and
\* user_nft_token_account.amount == 1
StakeNftAccounts(u, i) == vault.initialized /\ holder[i] = u

StakeNft(u, i) ==
    /\ StakeNftAccounts(u, i)
    /\ \E o \in {stake_nft(u, i)} :
          /\ o.err = "Ok"
          /\ user_stake' = [user_stake EXCEPT ![u] = o.user_stake]
          /\ vault' = o.vault
          /\ holder' = [holder EXCEPT ![i] = VaultPda]
          /\ vault_ata' = vault_ata \cup {i}
          /\ depositor' = [depositor EXCEPT ![i] = u]
          /\ result' = Result("stake_nft", u, vault.total_staked,
                              user_stake[u].staked_nfts)
          /\ UNCHANGED <<roles, role_user, mint_authority, minted, now, ticks,
                         item_seconds, gov, overflow_checks, calc>>

----------------------------------------------------------------------------
(* unstake_nft *)

\* mutation: unstake_nft does not look at the pause switch
unstake_checks_no_pause(v, us, t) ==
    IF ~LtW(Zero, us.staked_nfts) THEN "NoNftsStaked"
    ELSE IF ~(t - us.last_update_timestamp >= STAKE_COOLDOWN) THEN "TooFrequent"
    ELSE "Ok"

unstake_checks(v, us, t) ==
    IF v.paused THEN "VaultPaused"
    ELSE IF ~LtW(Zero, us.staked_nfts) THEN "NoNftsStaked"
    ELSE IF ~(t - us.last_update_timestamp >= STAKE_COOLDOWN) THEN "TooFrequent"
    ELSE "Ok"

\* mutation: the accrued reward replaces the pending reward
unstake_accrue_overwrite(v, us, t) ==
    calculate_rewards(t - us.last_update_timestamp,
                      v.reward_rate_per_second, us.staked_nfts)

\* the pending reward after the accrual
unstake_accrue(v, us, t) ==
    LET added(rewards_earned) ==
            IF rewards_earned.err # "Ok" THEN rewards_earned
            ELSE checked_add(us.pending_rewards, rewards_earned.val)
    IN added(calculate_rewards(t - us.last_update_timestamp,
                               v.reward_rate_per_second, us.staked_nfts))

\* token::transfer(vault_nft_token_account -> user_nft_token_account, 1),
\* signed by the vault: it needs the item in the vault's token account only
unstake_transfer(h, u, i) ==
    IF h[i] = VaultPda THEN "Ok" ELSE "InsufficientFunds"

\* mutation: the user's staked count is not decremented
unstake_user_update_keep(us, pending, t) ==
    Ok([us EXCEPT !.pending_rewards = pending, !.last_update_timestamp = t])

unstake_user_update(us, pending, t) ==
    LET updated(staked_nfts) ==
            IF staked_nfts.err # "Ok" THEN Fail(staked_nfts.err, us)
            ELSE Ok([us EXCEPT !.pending_rewards = pending,
                               !.staked_nfts = staked_nfts.val,
                               !.last_update_timestamp = t])
    IN updated(checked_sub_u32(us.staked_nfts, One))

\* mutation: the vault's total is not decremented
unstake_vault_update_keep(v) == Ok(v)

unstake_vault_update(v) ==
    LET updated(total_staked) ==
            IF total_staked.err # "Ok" THEN Fail(total_staked.err, v)
            ELSE Ok([v EXCEPT !.total_staked = total_staked.val])
    IN updated(checked_sub_u32(v.total_staked, One))

unstake_nft(u, i) ==
    LET us == user_stake[u]
        outcome(err, user, vlt) ==
            [err |-> err,
             user_stake |-> IF err = "Ok" THEN user.val ELSE us,
             vault |-> IF err = "Ok" THEN vlt.val ELSE vault]
        steps(chk, acc, transfer, user, vlt) ==
            outcome(IF chk # "Ok" THEN chk
                    ELSE IF acc.err # "Ok" THEN acc.err
                    ELSE IF transfer # "Ok" THEN transfer
                    ELSE IF user.err # "Ok" THEN user.err
                    ELSE vlt.err,
                    user, vlt)
        accrued(acc) ==
            steps(unstake_checks(vault, us, now), acc,
                  unstake_transfer(holder, u, i),
                  unstake_user_update(us, acc.val, now),
                  unstake_vault_update(vault))
    IN accrued(unstake_accrue(vault, us, now))

\* constraints: the vault and the caller's user_stake exist; the vault's token
\* account of the mint exists; user_nft_token_account.owner == user
UnstakeNftAccounts(u, i) ==
    vault.initialized /\ user_stake[u].exists /\ i \in vault_ata

UnstakeNft(u, i) ==
    /\ UnstakeNftAccounts(u, i)
    /\ \E o \in {unstake_nft(u, i)} :
          /\ o.err = "Ok"
          /\ user_stake' = [user_stake EXCEPT ![u] = o.user_stake]
          /\ vault' = o.vault
          /\ holder' = [holder EXCEPT ![i] = u]
          /\ result' = Result("unstake_nft", u, vault.total_staked,
                              user_stake[u].staked_nfts)
          /\ UNCHANGED <<roles, role_user, mint_authority, minted, vault_ata,
                         now, ticks, item_seconds, depositor, gov, overflow_checks, calc>>

----------------------------------------------------------------------------
(* claim_rewards *)

\* mutation: no minimum gap between claims
claim_checks_no_gap(v, us, t) ==
    IF v.paused THEN "VaultPaused"
    ELSE IF ~can_execute(v.circuit_breaker, t) THEN "CircuitBreakerActive"
    ELSE "Ok"

claim_checks(v, us, t) ==
    IF v.paused THEN "VaultPaused"
    ELSE IF ~can_execute(v.circuit_breaker, t) THEN "CircuitBreakerActive"
    ELSE IF ~(t - us.last_update_timestamp >= CLAIM_COOLDOWN) THEN "TooFrequentClaim"
    ELSE "Ok"

claim_total(v, us, t) ==
    LET positive(total_rewards) ==
            IF total_rewards.err # "Ok" THEN total_rewards
            ELSE IF ~LtW(Zero, total_rewards.val) THEN Err("NoRewardsToClaim")
            ELSE total_rewards
        added(rewards_earned) ==
            IF rewards_earned.err # "Ok" THEN rewards_earned
            ELSE positive(checked_add(us.pending_rewards, rewards_earned.val))
    IN added(calculate_rewards(t - us.last_update_timestamp,
                               v.reward_rate_per_second, us.staked_nfts))

\* mutation: the cap by the time since the vault's initialisation is missing
claim_caps_no_theoretical(v, dl, us, t, total_rewards) ==
    LET caps(max_reward_per_nft_per_day, max_total_reward) ==
            IF ~can_claim(dl, total_rewards) THEN "DailyLimitExceeded"
            ELSE IF max_reward_per_nft_per_day.err # "Ok" THEN "MathOverflow"
            ELSE IF max_total_reward.err # "Ok" THEN "MathOverflow"
            ELSE IF ~LeqW(total_rewards, max_total_reward.val)
                 THEN "ExcessiveRewardClaim"
            ELSE "Ok"
        by_count(max_reward_per_nft_per_day) ==
            caps(max_reward_per_nft_per_day,
                 checked_mul(max_reward_per_nft_per_day.val, us.staked_nfts))
    IN by_count(checked_mul(v.reward_rate_per_second, Wide(MAX_REWARD_WINDOW)))

\* mutation: only the daily limit is looked at
claim_caps_daily_only(v, dl, us, t, total_rewards) ==
    IF ~can_claim(dl, total_rewards) THEN "DailyLimitExceeded" ELSE "Ok"

\* the daily limit (dl: the limits after reset_if_new_day) and the two caps
\* of a claim of total_rewards at clock value t
claim_caps(v, dl, us, t, total_rewards) ==
    LET caps(max_reward_per_nft_per_day, max_total_reward,
             theoretical_per_nft, theoretical_max) ==
            IF can_claim_panics(dl, total_rewards) THEN "Panic"
            ELSE IF ~can_claim(dl, total_rewards) THEN "DailyLimitExceeded"
            ELSE IF max_reward_per_nft_per_day.err # "Ok" THEN "MathOverflow"
            ELSE IF max_total_reward.err # "Ok" THEN "MathOverflow"
            ELSE IF ~LeqW(total_rewards, max_total_reward.val)
                 THEN "ExcessiveRewardClaim"
            ELSE IF theoretical_per_nft.err # "Ok" THEN "MathOverflow"
            ELSE IF theoretical_max.err # "Ok" THEN "MathOverflow"
            ELSE IF ~LeqW(total_rewards, theoretical_max.val)
                 THEN "ExcessiveRewardClaim"
            ELSE "Ok"
        by_count(max_reward_per_nft_per_day, theoretical_per_nft) ==
            caps(max_reward_per_nft_per_day,
                 checked_mul(max_reward_per_nft_per_day.val, us.staked_nfts),
                 theoretical_per_nft,
                 checked_mul(theoretical_per_nft.val, us.staked_nfts))
        time_since_init == t - v.last_update_timestamp
    IN by_count(checked_mul(v.reward_rate_per_second, Wide(MAX_REWARD_WINDOW)),
                checked_mul(v.reward_rate_per_second, as_u64(time_since_init)))

claim_user_update(us, t) ==
    [us EXCEPT !.pending_rewards = Zero, !.last_update_timestamp = t]

\* mutation: a claim is counted as a failure of the breaker
claim_vault_update_failure(v, dl, total_rewards) ==
    LET updated(daily_limit, circuit_breaker) ==
            IF daily_limit.err # "Ok" THEN Fail(daily_limit.err, v)
            ELSE IF circuit_breaker.err # "Ok" THEN Fail(circuit_breaker.err, v)
            ELSE Ok([v EXCEPT !.daily_limit = daily_limit.val,
                              !.circuit_breaker = circuit_breaker.val])
    IN updated(record_claim(dl, total_rewards),
               on_failure(v.circuit_breaker, v.last_update_timestamp))

claim_vault_update(v, dl, total_rewards) ==
    LET updated(daily_limit, circuit_breaker) ==
            IF daily_limit.err # "Ok" THEN Fail(daily_limit.err, v)
            ELSE IF circuit_breaker.err # "Ok" THEN Fail(circuit_breaker.err, v)
            ELSE Ok([v EXCEPT !.daily_limit = daily_limit.val,
                              !.circuit_breaker = circuit_breaker.val])
    IN updated(record_claim(dl, total_rewards), on_success(v.circuit_breaker))

\* amount: what token::mint_to mints to the caller
claim_rewards(u) ==
    LET us == user_stake[u]
        dl == reset_if_new_day(vault.daily_limit, now)
        outcome(err, tot, vlt) ==
            [err |-> err,
             amount |-> IF err = "Ok" THEN tot.val ELSE Zero,
             user_stake |-> IF err = "Ok" THEN claim_user_update(us, now)
                            ELSE us,
             vault |-> IF err = "Ok" THEN vlt.val ELSE vault]
        steps(chk, tot, caps, vlt) ==
            outcome(IF chk # "Ok" THEN chk
                    ELSE IF tot.err # "Ok" THEN tot.err
                    ELSE IF caps # "Ok" THEN caps
                    ELSE IF mint_authority # VaultPda
                         THEN "InvalidMintAuthority"
                    ELSE vlt.err,
                    tot, vlt)
        totalled(tot) ==
            steps(claim_checks(vault, us, now), tot,
                  claim_caps(vault, dl, us, now, tot.val),
                  claim_vault_update(vault, dl, tot.val))
    IN totalled(claim_total(vault, us, now))

\* constraints: the vault and the caller's user_stake exist; reward_token_mint
\* is the vault's reward mint
ClaimRewardsAccounts(u) == vault.initialized /\ user_stake[u].exists

ClaimRewards(u) ==
    /\ ClaimRewardsAccounts(u)
    /\ \E o \in {claim_rewards(u)} :
          /\ o.err = "Ok"
          /\ minted' = [minted EXCEPT ![u] = @ + Narrow(o.amount)]
          /\ user_stake' = [user_stake EXCEPT ![u] = o.user_stake]
          /\ vault' = o.vault
          /\ result' = Result("claim_rewards", u, vault.total_staked,
                              user_stake[u].staked_nfts)
          /\ UNCHANGED <<roles, role_user, mint_authority, holder, vault_ata,
                         now, ticks, item_seconds, depositor, gov, overflow_checks, calc>>

----------------------------------------------------------------------------
(* pause_vault, unpause_vault *)

pause_vault(a) ==
    LET err == IF ~(~vault.paused) THEN "AlreadyPaused"
               ELSE IF ~can_pause_vault(roles[a]) THEN "InsufficientPermissions"
               ELSE "Ok"
    IN [err |-> err,
        vault |-> IF err = "Ok" THEN [vault EXCEPT !.paused = TRUE] ELSE vault]

unpause_vault(a) ==
    LET err == IF ~vault.paused THEN "NotPaused"
               ELSE IF ~can_pause_vault(roles[a]) THEN "InsufficientPermissions"
               ELSE "Ok"
    IN [err |-> err,
        vault |-> IF err = "Ok" THEN [vault EXCEPT !.paused = FALSE] ELSE vault]

\* constraints: the vault and the caller's AccountRole account exist
PauseVaultAccounts(a) == vault.initialized /\ roles[a] # NoRecord

PauseVault(a) ==
    /\ PauseVaultAccounts(a)
    /\ \E o \in {pause_vault(a)} :
          /\ o.err = "Ok"
          /\ vault' = o.vault
          /\ UNCHANGED <<user_stake, roles, role_user, mint_authority, minted,
                         holder, vault_ata, now, ticks, item_seconds,
                         depositor, result, gov, overflow_checks, calc>>

UnpauseVault(a) ==
    /\ PauseVaultAccounts(a)
    /\ \E o \in {unpause_vault(a)} :
          /\ o.err = "Ok"
          /\ vault' = o.vault
          /\ UNCHANGED <<user_stake, roles, role_user, mint_authority, minted,
                         holder, vault_ata, now, ticks, item_seconds,
                         depositor, result, gov, overflow_checks, calc>>

----------------------------------------------------------------------------
(* grant_role, revoke_role.  The account a call writes is user_role; target *)
(* is the identity whose role account is passed as user_role, user is the   *)
(* handler's argument.  granted_by and granted_at are written but never     *)
(* read by the program and are left out.                                    *)

\* mutation: the granter's role is not looked at
grant_role_unchecked(g, target, user, role) ==
    [err |-> "Ok", user |-> user, role |-> role]

grant_role(g, target, user, role) ==
    LET err == IF ~can_manage_roles(roles[g]) THEN "InsufficientPermissions"
               ELSE "Ok"
    IN [err |-> err,
        user |-> IF err = "Ok" THEN user ELSE role_user[target],
        role |-> IF err = "Ok" THEN role ELSE roles[target]]

\* the handler reads role_account.user for its event and writes nothing
revoke_role(g, target) ==
    LET err == IF ~can_manage_roles(roles[g]) THEN "InsufficientPermissions"
               ELSE "Ok"
    IN [err |-> err, user |-> role_user[target], role |-> roles[target]]

\* constraints: the vault and the granter's role account exist; user_role is
\* at the address derived from the user that user_role itself records
\* (seeds = [b"role", user_role.user]), which only an existing account that
\* records the identity of its own address satisfies
ManageRoleAccounts(g, target) ==
    /\ vault.initialized
    /\ roles[g] # NoRecord
    /\ roles[target] # NoRecord
    /\ role_user[target] = target

GrantRole(g, target, user, role) ==
    /\ ManageRoleAccounts(g, target)
    /\ \E o \in {grant_role(g, target, user, role)} :
          /\ o.err = "Ok"
          /\ roles' = [roles EXCEPT ![target] = o.role]
          /\ role_user' = [role_user EXCEPT ![target] = o.user]
          /\ gov' = [gov EXCEPT !.revoked = @ \ {target, user}]
          /\ UNCHANGED <<vault, user_stake, mint_authority, minted, holder,
                         vault_ata, now, ticks, item_seconds, depositor,
                         result, overflow_checks, calc>>

RevokeRole(g, target) ==
    /\ ManageRoleAccounts(g, target)
    /\ \E o \in {revoke_role(g, target)} :
          /\ o.err = "Ok"
          /\ roles' = [roles EXCEPT ![target] = o.role]
          /\ role_user' = [role_user EXCEPT ![target] = o.user]
          /\ gov' = [gov EXCEPT !.revoked = @ \cup {role_user[target]}]
          /\ UNCHANGED <<vault, user_stake, mint_authority, minted, holder,
                         vault_ata, now, ticks, item_seconds, depositor,
                         result, overflow_checks, calc>>

----------------------------------------------------------------------------
(* propose_upgrade, execute_upgrade, cancel_upgrade, lock_upgrades *)

MIN_TIMELOCK == 3600

\* mutation: lock_upgrades leaves a pending proposal in place
lock_upgrades_keep_pending(a) ==
    LET err == IF ~can_manage_upgrades(roles[a]) THEN "InsufficientPermissions"
               ELSE IF ~(~vault.upgrade_locked) THEN "UpgradesAlreadyLocked"
               ELSE "Ok"
    IN [err |-> err,
        vault |-> IF err = "Ok" THEN [vault EXCEPT !.upgrade_locked = TRUE]
                  ELSE vault]

\* mutation: the proposed version is not compared with the current one
propose_upgrade_any_version(a, new_version, timelock_seconds) ==
    LET err == IF ~(~vault.upgrade_locked) THEN "UpgradesLocked"
               ELSE IF ~(~vault.pending_upgrade.some) THEN "UpgradePending"
               ELSE IF ~can_manage_upgrades(roles[a]) THEN "InsufficientPermissions"
               ELSE IF ~ge_i64(timelock_seconds, I64(MIN_TIMELOCK))
                    THEN "InvalidTimelock"
               ELSE add_i64(I64(now), timelock_seconds).err
    IN [err |-> err,
        vault |-> IF err = "Ok"
                  THEN [vault EXCEPT !.pending_upgrade =
                            [some |-> TRUE, new_version |-> new_version,
                             scheduled_timestamp |->
                                 add_i64(I64(now), timelock_seconds).val,
                             proposer |-> a]]
                  ELSE vault]

\* timelock_seconds is an I64; clock.unix_timestamp + timelock_seconds is a
\* plain + on i64
propose_upgrade(a, new_version, timelock_seconds) ==
    LET scheduled_timestamp == add_i64(I64(now), timelock_seconds)
        err == IF ~(~vault.upgrade_locked) THEN "UpgradesLocked"
               ELSE IF ~(~vault.pending_upgrade.some) THEN "UpgradePending"
               ELSE IF ~can_manage_upgrades(roles[a]) THEN "InsufficientPermissions"
               ELSE IF ~(new_version > vault.version) THEN "InvalidVersion"
               ELSE IF ~ge_i64(timelock_seconds, I64(MIN_TIMELOCK))
                    THEN "InvalidTimelock"
               ELSE scheduled_timestamp.err
    IN [err |-> err,
        vault |-> IF err = "Ok"
                  THEN [vault EXCEPT !.pending_upgrade =
                            [some |-> TRUE, new_version |-> new_version,
                             scheduled_timestamp |-> scheduled_timestamp.val,
                             proposer |-> a]]
                  ELSE vault]

execute_upgrade(a) ==
    LET pending_upgrade == vault.pending_upgrade
        err == IF ~can_manage_upgrades(roles[a]) THEN "InsufficientPermissions"
               ELSE IF ~pending_upgrade.some THEN "NoUpgradePending"
               ELSE IF ~ge_i64(I64(now), pending_upgrade.scheduled_timestamp)
                    THEN "TimelockNotExpired"
               ELSE "Ok"
    IN [err |-> err,
        vault |-> IF err = "Ok"
                  THEN [vault EXCEPT !.version = pending_upgrade.new_version,
                                     !.pending_upgrade = NoPendingUpgrade]
                  ELSE vault]

cancel_upgrade(a) ==
    LET err == IF ~can_manage_upgrades(roles[a]) THEN "InsufficientPermissions"
               ELSE IF ~vault.pending_upgrade.some THEN "NoUpgradePending"
               ELSE "Ok"
    IN [err |-> err,
        vault |-> IF err = "Ok"
                  THEN [vault EXCEPT !.pending_upgrade = NoPendingUpgrade]
                  ELSE vault]

lock_upgrades(a) ==
    LET err == IF ~can_manage_upgrades(roles[a]) THEN "InsufficientPermissions"
               ELSE IF ~(~vault.upgrade_locked) THEN "UpgradesAlreadyLocked"
               ELSE "Ok"
    IN [err |-> err,
        vault |-> IF err = "Ok"
                  THEN [vault EXCEPT !.upgrade_locked = TRUE,
                                     !.pending_upgrade = NoPendingUpgrade]
                  ELSE vault]

\* constraints of ProposeUpgrade, ExecuteUpgrade, CancelUpgrade, LockUpgrades:
\* the vault and the signer's role account exist
ProposeUpgradeAccounts(a) == vault.initialized /\ roles[a] # NoRecord
ExecuteUpgradeAccounts(a) == vault.initialized /\ roles[a] # NoRecord
CancelUpgradeAccounts(a) == vault.initialized /\ roles[a] # NoRecord
LockUpgradesAccounts(a) == vault.initialized /\ roles[a] # NoRecord

ProposeUpgrade(a, new_version, timelock_seconds) ==
    /\ ProposeUpgradeAccounts(a)
    /\ \E o \in {propose_upgrade(a, new_version, timelock_seconds)} :
          /\ o.err = "Ok"
          /\ vault' = o.vault
          /\ gov' = Gov(gov.revoked, now, timelock_seconds)
          /\ UNCHANGED <<user_stake, roles, role_user, mint_authority, minted,
                         holder, vault_ata, now, ticks, item_seconds,
                         depositor, result, overflow_checks, calc>>

ExecuteUpgrade(a) ==
    /\ ExecuteUpgradeAccounts(a)
    /\ \E o \in {execute_upgrade(a)} :
          /\ o.err = "Ok"
          /\ vault' = o.vault
          /\ gov' = Gov(gov.revoked, 0, I64(0))
          /\ UNCHANGED <<user_stake, roles, role_user, mint_authority, minted,
                         holder, vault_ata, now, ticks, item_seconds,
                         depositor, result, overflow_checks, calc>>

CancelUpgrade(a) ==
    /\ CancelUpgradeAccounts(a)
    /\ \E o \in {cancel_upgrade(a)} :
          /\ o.err = "Ok"
          /\ vault' = o.vault
          /\ gov' = Gov(gov.revoked, 0, I64(0))
          /\ UNCHANGED <<user_stake, roles, role_user, mint_authority, minted,
                         holder, vault_ata, now, ticks, item_seconds,
                         depositor, result, overflow_checks, calc>>

LockUpgrades(a) ==
    /\ LockUpgradesAccounts(a)
    /\ \E o \in {lock_upgrades(a)} :
          /\ o.err = "Ok"
          /\ vault' = o.vault
          /\ gov' = Gov(gov.revoked, 0, I64(0))
          /\ UNCHANGED <<user_stake, roles, role_user, mint_authority, minted,
                         holder, vault_ata, now, ticks, item_seconds,
                         depositor, result, overflow_checks, calc>>

----------------------------------------------------------------------------
(* update_config *)

update_config(a, new_reward_rate, new_collection_mint) ==
    LET err == IF ~can_update_config(roles[a]) THEN "InsufficientPermissions"
               ELSE IF new_reward_rate.some /\ ~LtW(Zero, new_reward_rate.val)
                    THEN "InvalidRewardRate"
               ELSE "Ok"
        v1 == IF new_reward_rate.some
              THEN [vault EXCEPT !.reward_rate_per_second = new_reward_rate.val]
              ELSE vault
        v2 == IF new_collection_mint.some
              THEN [v1 EXCEPT !.collection_mint = new_collection_mint.val]
              ELSE v1
    IN [err |-> err, vault |-> IF err = "Ok" THEN v2 ELSE vault]

UpdateConfigAccounts(a) == vault.initialized /\ roles[a] # NoRecord

UpdateConfig(a, new_reward_rate, new_collection_mint) ==
    /\ UpdateConfigAccounts(a)
    /\ \E o \in {update_config(a, new_reward_rate, new_collection_mint)} :
          /\ o.err = "Ok"
          /\ vault' = o.vault
          /\ UNCHANGED <<user_stake, roles, role_user, mint_authority, minted,
                         holder, vault_ata, now, ticks, item_seconds,
                         depositor, result, gov, overflow_checks, calc>>

----------------------------------------------------------------------------
(* Events: the sequence of events a call of each instruction emits.  Every  *)
(* emit! is the handler's last statement before Ok(()); initialize_vault    *)
(* has none.                                                                *)

emit(err, event) == IF err = "Ok" THEN <<event>> ELSE <<>>

initialize_vault_events(a, rate, coll) == <<>>
stake_nft_events(u, i) == emit(stake_nft(u, i).err, "NftStaked")
unstake_nft_events(u, i) == emit(unstake_nft(u, i).err, "NftUnstaked")
claim_rewards_events(u) == emit(claim_rewards(u).err, "RewardsClaimed")
pause_vault_events(a) == emit(pause_vault(a).err, "VaultPaused")
unpause_vault_events(a) == emit(unpause_vault(a).err, "VaultUnpaused")
grant_role_events(g, target, user, role) ==
    emit(grant_role(g, target, user, role).err, "RoleGranted")
revoke_role_events(g, target) == emit(revoke_role(g, target).err, "RoleRevoked")
propose_upgrade_events(a, new_version, timelock_seconds) ==
    emit(propose_upgrade(a, new_version, timelock_seconds).err, "UpgradeProposed")
execute_upgrade_events(a) == emit(execute_upgrade(a).err, "UpgradeExecuted")
cancel_upgrade_events(a) == emit(cancel_upgrade(a).err, "UpgradeCancelled")
lock_upgrades_events(a) == emit(lock_upgrades(a).err, "UpgradesLocked")
update_config_events(a, new_reward_rate, new_collection_mint) ==
    emit(update_config(a, new_reward_rate, new_collection_mint).err,
         "ConfigUpdated")

----------------------------------------------------------------------------
(* The clock: unix_timestamp advances between instructions.  item_seconds  *)
(* adds, for every second that passes, the items the user has staked.      *)

Elapse(d) ==
    /\ now' = now + d
    /\ ticks' = ticks + 1
    /\ item_seconds' =
           [u \in Users |->
               item_seconds[u] + d * Narrow(user_stake[u].staked_nfts)]
    /\ UNCHANGED <<ledger, depositor, result, gov, overflow_checks, calc>>

Advance(d) ==
    /\ vault.initialized
    /\ (now + d) - vault.last_update_timestamp <= MaxHorizon
    /\ Elapse(d)

Tick(d) == ticks < MaxTicks /\ Advance(d)

----------------------------------------------------------------------------
(* The vault ledger from the program's deployment: initialisation,         *)
(* staking and claims.  No role account exists and no instruction creates  *)
(* the first one, so no role-gated instruction can be called.               *)

\* reward_rate_per_second arguments of initialize_vault: a rate whose rewards
\* stay far below every cap, and one whose rewards reach the caps
Rates == {Wide(10), Wide(3000)}
\* clock advances: the claim gap, the stake gap, the longest accrual window
Deltas == {60, 300, 172800}

Instruction(rates) ==
    \/ \E a \in {"sa", "u1"}, rate \in rates \cup {Zero}, coll \in Collections :
           InitializeVault(a, rate, coll)
    \/ \E u \in Users, i \in Items : StakeNft(u, i)
    \/ \E u \in Users, i \in Items : UnstakeNft(u, i)
    \/ \E u \in Users : ClaimRewards(u)

Next ==
    \/ Instruction({Wide(3000)})
    \/ \E d \in Deltas : Tick(d)

Spec == Init /\ [][Next]_vars

\* the same ledger deployed at clock value 0, the clock advancing by the claim
\* gap or an hour
InitEpoch == Deploy(0, NoRoles)
EpochDeltas == {60, 3600}
NextEpoch ==
    \/ Instruction({Wide(10)})
    \/ \E d \in EpochDeltas : Tick(d)

SpecEpoch == InitEpoch /\ [][NextEpoch]_vars

----------------------------------------------------------------------------
(* The ledger with its pause switch.  pause_vault and unpause_vault need   *)
(* the caller's role account, so the ledger is taken either as the program *)
(* deploys it or with role accounts loaded beforehand.                      *)

InitPause == Deploy(T0, NoRoles) \/ Deploy(T0, PreloadedRoles)

PauseDeltas == {300, 172800}

NextPause ==
    \/ \E rate \in Rates : InitializeVault("sa", rate, "c1")
    \/ \E u \in Users, i \in Items : StakeNft(u, i)
    \/ \E u \in Users, i \in Items : UnstakeNft(u, i)
    \/ \E u \in Users : ClaimRewards(u)
    \/ \E a \in Identities : PauseVault(a)
    \/ \E a \in Identities : UnpauseVault(a)
    \/ \E d \in PauseDeltas : ticks < MaxPauseTicks /\ Tick(d)

SpecPause == InitPause /\ [][NextPause]_vars

----------------------------------------------------------------------------
(* Governance: roles, the upgrade timelock, the configuration and the      *)
(* pause switch, the clock advancing by half the minimum timelock at a     *)
(* time.  The role accounts of the ledger are an input: none, as the        *)
(* program deploys it, or accounts loaded beforehand.  The build profile   *)
(* is an input too: the sum of propose_upgrade is a plain +.                *)

\* role accounts passed to grant_role and revoke_role as user_role
GrantTargets == {"mo", "op"}
GrantRoles == {"SuperAdmin", "Operator"}
\* the user argument of grant_role: the identity the account is derived
\* from and, for one of the accounts, another identity
GrantUsers(target) == IF target = "op" THEN {target, "u1"} ELSE {target}
NewVersions == {1, 2, 3}
\* timelock_seconds: below the minimum, the minimum, i64::MAX
Timelocks == {I64(1800), I64(3600), [neg |-> FALSE, mag |-> I64_MAX]}
GovDeltas == {1800}
\* update_config arguments: nothing, a zero rate, a new rate and collection
NewConfigs == {<<NoneOf(Zero), NoneOf("none")>>, <<SomeOf(Zero), NoneOf("none")>>,
               <<SomeOf(Wide(3000)), SomeOf("c2")>>}

InitGov ==
    /\ Genesis(T0, NoRoles) \/ Genesis(T0, PreloadedRoles)
    /\ holder["n2"] = "u2"
    /\ overflow_checks \in BOOLEAN
    /\ calc = NoCalc

NextGov ==
    \/ InitializeVault("sa", Wide(10), "c1")
    \/ \E g \in Admins, target \in GrantTargets, role \in GrantRoles :
           \E user \in GrantUsers(target) : GrantRole(g, target, user, role)
    \/ \E g \in Admins, target \in GrantTargets : RevokeRole(g, target)
    \/ \E a \in Admins, new_version \in NewVersions, timelock_seconds \in Timelocks :
           ProposeUpgrade(a, new_version, timelock_seconds)
    \/ \E a \in Admins : ExecuteUpgrade(a)
    \/ \E a \in Admins : CancelUpgrade(a)
    \/ \E a \in Admins : LockUpgrades(a)
    \/ \E a \in Admins, c \in NewConfigs : UpdateConfig(a, c[1], c[2])
    \/ \E a \in Admins : PauseVault(a)
    \/ \E a \in Admins : UnpauseVault(a)
    \/ \E d \in GovDeltas : ticks < MaxGovTicks /\ Advance(d)

SpecGov == InitGov /\ [][NextGov]_vars

----------------------------------------------------------------------------
(* The circuit breaker as a component: the vault's CircuitBreakerState      *)
(* under any sequence of on_success and on_failure calls, the clock         *)
(* advancing by the reset timeout or one second more.                       *)

BreakerDeltas == {600, 601}

InitBreaker == Deploy(T0, NoRoles) /\ holder["n2"] = "u2"

OnSuccess ==
    /\ vault.initialized
    /\ Narrow(vault.circuit_breaker.total_transactions) < MaxCalls
    /\ \E o \in {on_success(vault.circuit_breaker)} :
          /\ o.err = "Ok"
          /\ vault' = [vault EXCEPT !.circuit_breaker = o.val]
    /\ UNCHANGED <<user_stake, roles, role_user, mint_authority, minted, holder,
                   vault_ata, now, ticks, item_seconds, depositor, result, gov,
                   overflow_checks, calc>>

OnFailure ==
    /\ vault.initialized
    /\ Narrow(vault.circuit_breaker.total_transactions) < MaxCalls
    /\ \E o \in {on_failure(vault.circuit_breaker, now)} :
          /\ o.err = "Ok"
          /\ vault' = [vault EXCEPT !.circuit_breaker = o.val]
    /\ UNCHANGED <<user_stake, roles, role_user, mint_authority, minted, holder,
                   vault_ata, now, ticks, item_seconds, depositor, result, gov,
                   overflow_checks, calc>>

NextBreaker ==
    \/ InitializeVault("sa", Wide(10), "c1")
    \/ OnSuccess
    \/ OnFailure
    \/ \E d \in BreakerDeltas : ticks < MaxBreakerTicks /\ Tick(d)

SpecBreaker == InitBreaker /\ [][NextBreaker]_vars

----------------------------------------------------------------------------
(* The daily limits as a component: the vault's DailyLimits under any       *)
(* sequence of the calls stake_nft and claim_rewards make on it             *)
(* (reset_if_new_day, the can_ check, the record_ call once the instruction *)
(* has succeeded), the clock advancing by a day or one second more.  A      *)
(* call that fails its check keeps nothing, the reset included.             *)

LimitDeltas == {86400, 86401}
ClaimAmounts == {One, Wide(600000000)}

DailyStake ==
    /\ vault.initialized
    /\ LET dl == reset_if_new_day(vault.daily_limit, now)
           o == record_stake(dl)
       IN /\ can_stake(dl)
          /\ o.err = "Ok"
          /\ vault' = [vault EXCEPT !.daily_limit = o.val]
    /\ UNCHANGED <<user_stake, roles, role_user, mint_authority, minted, holder,
                   vault_ata, now, ticks, item_seconds, depositor, result, gov,
                   overflow_checks, calc>>

DailyClaim(reward_amount) ==
    /\ vault.initialized
    /\ LET dl == reset_if_new_day(vault.daily_limit, now)
           o == record_claim(dl, reward_amount)
       IN /\ can_claim(dl, reward_amount)
          /\ o.err = "Ok"
          /\ vault' = [vault EXCEPT !.daily_limit = o.val]
    /\ UNCHANGED <<user_stake, roles, role_user, mint_authority, minted, holder,
                   vault_ata, now, ticks, item_seconds, depositor, result, gov,
                   overflow_checks, calc>>

NextLimits ==
    \/ InitializeVault("sa", Wide(10), "c1")
    \/ DailyStake
    \/ \E reward_amount \in ClaimAmounts : DailyClaim(reward_amount)
    \/ \E d \in LimitDeltas : ticks < MaxLimitTicks /\ Tick(d)

SpecLimits == InitBreaker /\ [][NextLimits]_vars

----------------------------------------------------------------------------
(* The arithmetic on its own: calculate_rewards applied once to arguments   *)
(* drawn around the ends of their ranges.                                   *)

MathElapsed == {-1, 0, 1, 86400, 172800, 172801}
\* 106751991167300 is the largest rate whose product with 172800 fits in
\* u64, 213503982334601 the largest whose product with 86400 does
MathRates == {Zero, One, Wide(3000), <<0, 106, 7519, 9116, 7300>>,
              <<0, 106, 7519, 9116, 7301>>, <<0, 213, 5039, 8233, 4601>>,
              U64_MAX}
MathCounts == {Zero, One, Wide(2), U32_MAX}

InitMath ==
    /\ Genesis(T0, NoRoles)
    /\ overflow_checks \in BOOLEAN
    /\ calc \in [time_elapsed : MathElapsed,
                 reward_rate_per_second : MathRates,
                 staked_nfts : MathCounts,
                 rewards : {NoOut}]

CalculateRewards ==
    /\ calc.rewards = NoOut
    /\ calc' = [calc EXCEPT !.rewards =
                    calculate_rewards(calc.time_elapsed,
                                      calc.reward_rate_per_second,
                                      calc.staked_nfts)]
    /\ UNCHANGED <<ledger, now, ticks, item_seconds, depositor, result, gov,
                   overflow_checks>>

NextMath == CalculateRewards

SpecMath == InitMath /\ [][NextMath]_vars

----------------------------------------------------------------------------
(* The ledger after six years of staking without a claim.  From the        *)
(* deployment at T0: initialize_vault(10^7); u1 stakes 10000 items of the   *)
(* collection, 300 s apart and 100 a day (n1 first); u1 unstakes one item   *)
(* and stakes it again, up to 172800 s apart, 518 times; u1 unstakes every  *)
(* item but n1, 300 s apart.  These are 21035 successful instructions, the  *)
(* last one 190267617 s after the first, and u1's accruals, each a checked  *)
(* product added by checked_add, sum to 10^7 x 1844674407310 item-seconds.  *)
(* The state below is the ledger they leave, the items other than n1 being  *)
(* back with u1; item_seconds, minted and ticks count from this state on.   *)

AgedRate == Wide(10000000)
AgedSince == 190267617
\* the last stake, which reset the day's counters, was 2999700 s earlier
AgedLastReset == 187267917
\* 18446744073100000000
AgedPending == <<1844, 6744, 731, 0, 0>>
\* the stakes: 10000 at first, 518 of items staked again
AgedTransactions == Wide(10518)

AgedVault ==
    [initialize_vault_state("sa", AgedRate, "c1", T0) EXCEPT
        !.total_staked = One,
        !.circuit_breaker =
            [CircuitBreakerState_new EXCEPT
                !.total_transactions = AgedTransactions],
        !.daily_limit =
            [DailyLimits_new EXCEPT
                !.stakes_today = One,
                !.last_reset_timestamp = T0 + AgedLastReset]]

AgedUserStake ==
    [exists |-> TRUE, staked_nfts |-> One, pending_rewards |-> AgedPending,
     last_update_timestamp |-> T0 + AgedSince]

InitAged ==
    /\ vault = AgedVault
    /\ user_stake = [u \in Users |->
                        IF u = "u1" THEN AgedUserStake ELSE UserStakeUninit]
    /\ roles = NoRoles
    /\ role_user = [a \in Identities |-> "none"]
    /\ mint_authority = VaultPda
    /\ minted = [u \in Users |-> 0]
    /\ holder = [i \in Items |->
                    IF i = "n1" THEN VaultPda
                    ELSE IF i = "n2" THEN "u2" ELSE "u1"]
    /\ vault_ata = {"n1"}
    /\ now = T0 + AgedSince
    /\ ticks = 0
    /\ item_seconds = [u \in Users |-> 0]
    /\ depositor = [i \in Items |-> IF i = "n1" THEN "u1" ELSE "none"]
    /\ result = Result("unstake_nft", "u1", Wide(2), Wide(2))
    /\ gov = NoGov
    /\ overflow_checks \in BOOLEAN
    /\ calc = NoCalc

\* clock advances: the claim gap, the stake gap, a day
AgedDeltas == {60, 300, 86400}

NextAged ==
    \/ \E u \in Users, i \in Nfts : StakeNft(u, i)
    \/ \E u \in Users, i \in Nfts : UnstakeNft(u, i)
    \/ \E u \in Users : ClaimRewards(u)
    \/ \E d \in AgedDeltas : ticks < MaxAgedTicks /\ Elapse(d)

SpecAged == InitAged /\ [][NextAged]_vars

----------------------------------------------------------------------------
(* Properties *)

StakedSum ==
    LET sum[S \in SUBSET Users] ==
            IF S = {} THEN 0
            ELSE LET u == CHOOSE x \in S : TRUE
                 IN Narrow(user_stake[u].staked_nfts) + sum[S \ {u}]
    IN sum[Users]

\* C1: the vault's total_staked is the sum of the users' staked_nfts, and no
\* counter is negative, in every state any sequence of calls reaches.
C1_TotalStakedIsSum ==
    /\ Narrow(vault.total_staked) = StakedSum
    /\ Narrow(vault.total_staked) >= 0
    /\ \A u \in Users : Narrow(user_stake[u].staked_nfts) >= 0

\* both users have staked and one of them has unstaked again
C1_Witness ==
    /\ result.op = "unstake_nft"
    /\ vault.total_staked = One
    /\ \E u \in Users : user_stake[u].exists /\ user_stake[u].staked_nfts = Zero
    /\ \E u \in Users : user_stake[u].staked_nfts = One

\* C2: an item that has been staked and is out of the vault again is held by
\* the user who staked it: unstake_nft returns an item to its depositor only.
C2_ReturnedToDepositor ==
    \A i \in Items :
        (depositor[i] # "none" /\ holder[i] # VaultPda) => holder[i] = depositor[i]

\* C3: with the rate fixed, what a user has been minted plus the pending
\* reward is the rate times the item-seconds staked up to the user's
\* last_update_timestamp.
C3_RewardIsRateTimesItemSeconds ==
    \A u \in Users :
        minted[u] + Narrow(user_stake[u].pending_rewards) =
            Narrow(vault.reward_rate_per_second) *
                (item_seconds[u] -
                 Narrow(user_stake[u].staked_nfts)
                     * (now - user_stake[u].last_update_timestamp))

\* a user with two items who has claimed and, later, unstaked: tokens minted
\* and reward pending
C3_Witness ==
    \E u \in Users :
        /\ result.op = "unstake_nft" /\ result.caller = u
        /\ result.staked_nfts = Wide(2)
        /\ minted[u] > 0
        /\ LtW(Zero, user_stake[u].pending_rewards)

\* C4: a user's pending_rewards decreases only in that user's successful
\* claim_rewards, which leaves it 0; every other step leaves it equal or larger.
C4_PendingDecreasesOnlyOnClaim ==
    [][\A u \in Users :
          /\ LtW(user_stake'[u].pending_rewards, user_stake[u].pending_rewards)
                => /\ minted'[u] > minted[u]
                   /\ result'.op = "claim_rewards" /\ result'.caller = u
          /\ minted'[u] # minted[u] => user_stake'[u].pending_rewards = Zero]_vars

\* a claim of a user with two items: the second stake left reward pending,
\* the claim reset it
C4_Witness ==
    \E u \in Users :
        /\ result.op = "claim_rewards" /\ result.caller = u
        /\ user_stake[u].staked_nfts = Wide(2)
        /\ minted[u] > Narrow(vault.reward_rate_per_second) * 2 * CLAIM_COOLDOWN
        /\ user_stake[u].pending_rewards = Zero

\* C5: every successful claim_rewards mints pending_rewards plus the accrual
\* of the elapsed time, and that amount is within the one-day cap, within the
\* cap by the time since the vault's initialisation, and within the daily
\* payout and claim-count limits (counted after the daily reset).
C5_ClaimWithinCaps ==
    [][\A u \in Users :
          minted'[u] # minted[u] =>
              LET us == user_stake[u]
                  staked_nfts == Narrow(us.staked_nfts)
                  rate == Narrow(vault.reward_rate_per_second)
                  dl == vault.daily_limit
                  total == minted'[u] - minted[u]
                  new_day == now - dl.last_reset_timestamp > 86400
                  claimed_today == IF new_day THEN 0
                                   ELSE Narrow(dl.rewards_claimed_today)
                  claims_today == IF new_day THEN 0 ELSE Narrow(dl.claims_today)
              IN /\ total = Narrow(us.pending_rewards) +
                            (now - us.last_update_timestamp) * rate * staked_nfts
                 /\ total <= rate * 86400 * staked_nfts
                 /\ total <= rate * (now - vault.last_update_timestamp) * staked_nfts
                 /\ claimed_today + total <= Narrow(dl.max_total_rewards_per_day)
                 /\ claims_today < Narrow(dl.max_claims_per_day)]_vars

\* a claim that mints exactly the cap by the time since initialisation
C5_Witness ==
    \E u \in Users :
        /\ result.op = "claim_rewards" /\ result.caller = u
        /\ minted[u] > 0
        /\ minted[u] = Narrow(vault.reward_rate_per_second)
                         * (now - vault.last_update_timestamp)
                         * Narrow(user_stake[u].staked_nfts)

\* the state a successful claim_rewards of u has left: no instruction has
\* changed it and no time has elapsed since
JustClaimed(u) ==
    /\ result.op = "claim_rewards" /\ result.caller = u
    /\ user_stake[u].last_update_timestamp = now
    /\ user_stake[u].pending_rewards = Zero
    /\ ~vault.paused

\* C6 as stated: a second claim right after a successful one, with zero
\* elapsed time and zero pending reward, fails with NoRewardsToClaim.
C6_SecondClaimNoRewards ==
    \A u \in Users : JustClaimed(u) => claim_rewards(u).err = "NoRewardsToClaim"

\* C6 amended: that second claim fails with TooFrequentClaim, and changes no
\* field of the user record or the vault and mints nothing.
C6_SecondClaimTooFrequent ==
    \A u \in Users :
        JustClaimed(u) =>
            /\ claim_rewards(u).err = "TooFrequentClaim"
            /\ claim_rewards(u).amount = Zero
            /\ claim_rewards(u).user_stake = user_stake[u]
            /\ claim_rewards(u).vault = vault

\* a claim has just minted its reward
C6_Witness ==
    \E u \in Users : JustClaimed(u) /\ minted[u] > 0

\* C7: rate 10, two items staked at t = 0, claim_rewards at t = 3600: the
\* claim succeeds, mints 72000 and leaves pending_rewards 0.
C7_ExampleScenario ==
    \A u \in Users :
        (/\ now = 3600
         /\ ~vault.paused
         /\ vault.reward_rate_per_second = Wide(10)
         /\ user_stake[u].staked_nfts = Wide(2)
         /\ item_seconds[u] = 2 * 3600
         /\ minted[u] = 0)
        => /\ claim_rewards(u).err = "Ok"
           /\ claim_rewards(u).amount = Wide(72000)
           /\ claim_rewards(u).user_stake.pending_rewards = Zero

\* the state the scenario's claim leaves
C7_Witness ==
    \E u \in Users :
        /\ now = 3600
        /\ result.op = "claim_rewards" /\ result.caller = u
        /\ vault.reward_rate_per_second = Wide(10)
        /\ item_seconds[u] = 2 * 3600
        /\ minted[u] = 72000
        /\ user_stake[u].pending_rewards = Zero

\* C8: a successful unstake_nft of the user whose stake_nft was the last
\* successful instruction leaves the vault's total_staked and the user's
\* staked_nfts at the values they had before that stake.
C8_StakeUnstakeRestores ==
    [][\A u \in Users :
          (/\ result.op = "stake_nft" /\ result.caller = u
           /\ result'.op = "unstake_nft" /\ result'.caller = u)
          => /\ vault'.total_staked = result.total_staked
             /\ user_stake'[u].staked_nfts = result.staked_nfts]_vars

\* u1 staked its only item at deployment and unstaked it one clock advance
\* later, nothing else having happened
C8_Witness ==
    /\ result = Result("unstake_nft", "u1", One, One)
    /\ ticks = 1
    /\ depositor["n1"] = "u1" /\ depositor["n2"] = "none"
    /\ minted["u1"] = 0
    /\ vault.total_staked = Zero
    /\ user_stake["u1"].staked_nfts = Zero

\* C9: while the vault is paused every stake_nft, unstake_nft and
\* claim_rewards fails with VaultPaused; no step changes a user record, the
\* minted amounts, the custody of an item, the total, the daily limits or the
\* circuit breaker; and the pause ends only by a successful unpause_vault.
C9_PausedFreezes ==
    /\ [](vault.paused =>
            /\ \A u \in Users, i \in Items :
                  /\ StakeNftAccounts(u, i) => stake_nft(u, i).err = "VaultPaused"
                  /\ UnstakeNftAccounts(u, i) => unstake_nft(u, i).err = "VaultPaused"
            /\ \A u \in Users :
                  ClaimRewardsAccounts(u) => claim_rewards(u).err = "VaultPaused")
    /\ [][vault.paused =>
            /\ user_stake' = user_stake
            /\ minted' = minted
            /\ holder' = holder
            /\ vault'.total_staked = vault.total_staked
            /\ vault'.daily_limit = vault.daily_limit
            /\ vault'.circuit_breaker = vault.circuit_breaker
            /\ ~vault'.paused =>
                   \E a \in Identities :
                       /\ PauseVaultAccounts(a)
                       /\ unpause_vault(a).err = "Ok"
                       /\ vault' = unpause_vault(a).vault]_vars

\* paused, while a user holds a stake old enough to unstake and to claim
C9_Witness ==
    /\ vault.paused
    /\ \E u \in Users, i \in Items :
          /\ UnstakeNftAccounts(u, i)
          /\ holder[i] = VaultPda
          /\ LtW(Zero, user_stake[u].staked_nfts)
          /\ now - user_stake[u].last_update_timestamp >= STAKE_COOLDOWN
          /\ unstake_nft(u, i).err = "VaultPaused"
          /\ claim_rewards(u).err = "VaultPaused"

\* C10: pause_vault succeeds exactly when the vault is not paused and the
\* caller is SuperAdmin, Admin or Moderator, and then sets paused; unpause_vault
\* succeeds exactly when it is paused and the caller has such a role, and then
\* clears paused; pause of a paused vault fails with AlreadyPaused, unpause of
\* an unpaused one with NotPaused; a failed call leaves paused as it was.
C10_PauseGate ==
    \A a \in Identities :
        PauseVaultAccounts(a) =>
            LET p == pause_vault(a)
                q == unpause_vault(a)
                may == roles[a] \in {"SuperAdmin", "Admin", "Moderator"}
            IN /\ p.err = "Ok" <=> (~vault.paused /\ may)
               /\ p.err = "Ok" => p.vault.paused
               /\ vault.paused => p.err = "AlreadyPaused"
               /\ p.err # "Ok" => p.vault.paused = vault.paused
               /\ q.err = "Ok" <=> (vault.paused /\ may)
               /\ q.err = "Ok" => ~q.vault.paused
               /\ ~vault.paused => q.err = "NotPaused"
               /\ q.err # "Ok" => q.vault.paused = vault.paused

\* a paused vault that holds a stake
C10_Witness ==
    /\ vault.paused
    /\ LtW(Zero, vault.total_staked)
    /\ pause_vault("mo").err = "AlreadyPaused"
    /\ unpause_vault("op").err = "InsufficientPermissions"
    /\ unpause_vault("mo").err = "Ok"

----------------------------------------------------------------------------
(* Properties of governance *)

\* C11: a privileged instruction succeeds only when the caller's role has the
\* capability the instruction names (pause and unpause: SuperAdmin, Admin or
\* Moderator; update_config and the four upgrade instructions: SuperAdmin or
\* Admin; grant_role and revoke_role: SuperAdmin), and without it the call
\* fails and writes nothing; grant_role by an Operator fails with
\* InsufficientPermissions; a grant_role by a SuperAdmin succeeds and the role
\* account it writes records the subject and exactly the granted role.
C11_RoleGates ==
    \A a \in Identities :
        roles[a] # NoRecord /\ vault.initialized =>
            LET pausers == {"SuperAdmin", "Admin", "Moderator"}
                admins == {"SuperAdmin", "Admin"}
                gated(o, allowed) ==
                    /\ o.err = "Ok" => roles[a] \in allowed
                    /\ roles[a] \notin allowed => o.err # "Ok" /\ o.vault = vault
            IN /\ gated(pause_vault(a), pausers)
               /\ gated(unpause_vault(a), pausers)
               /\ \A c \in NewConfigs : gated(update_config(a, c[1], c[2]), admins)
               /\ \A nv \in NewVersions, tl \in Timelocks :
                      gated(propose_upgrade(a, nv, tl), admins)
               /\ gated(execute_upgrade(a), admins)
               /\ gated(cancel_upgrade(a), admins)
               /\ gated(lock_upgrades(a), admins)
               /\ \A target \in GrantTargets :
                      ManageRoleAccounts(a, target) =>
                          /\ \A r \in {revoke_role(a, target)} :
                                 /\ r.err = "Ok" <=> roles[a] = "SuperAdmin"
                                 /\ r.err # "Ok" => /\ r.role = roles[target]
                                                    /\ r.user = role_user[target]
                          /\ \A role \in RoleNames, user \in Identities :
                                 \A o \in {grant_role(a, target, user, role)} :
                                    /\ o.err = "Ok" <=> roles[a] = "SuperAdmin"
                                    /\ roles[a] = "Operator" =>
                                           o.err = "InsufficientPermissions"
                                    /\ o.err = "Ok" => o.role = role /\ o.user = user
                                    /\ o.err # "Ok" => /\ o.role = roles[target]
                                                       /\ o.user = role_user[target]

\* the Operator has been granted SuperAdmin and can now grant roles itself,
\* while the Admin still cannot
C11_Witness ==
    /\ roles["op"] = "SuperAdmin" /\ role_user["op"] = "op"
    /\ ManageRoleAccounts("op", "mo")
    /\ grant_role("op", "mo", "mo", "Operator").err = "Ok"
    /\ grant_role("ad", "mo", "mo", "Operator").err = "InsufficientPermissions"
    /\ pause_vault("op").err \in {"Ok", "AlreadyPaused"}

\* C12: a subject whose role has been revoked, and not granted again since,
\* has no role, and none of the four capability predicates holds of it.
C12_RevokedHasNoAuthority ==
    \A x \in gov.revoked :
        /\ roles[x] \notin RoleNames
        /\ ~can_pause_vault(roles[x])
        /\ ~can_update_config(roles[x])
        /\ ~can_manage_roles(roles[x])
        /\ ~can_manage_upgrades(roles[x])

\* C13: while the proposal made at time t0 with timelock tl is pending and
\* now < t0 + tl, every execute_upgrade fails and leaves the vault as it is,
\* with TimelockNotExpired for a caller who may manage upgrades; from t0 + tl
\* on, execute_upgrade by such a caller succeeds, sets version to the proposed
\* version and clears the proposal.
C13_UpgradeTimelock ==
    vault.pending_upgrade.some =>
        LET due == AddW(Wide(gov.proposed_at), gov.timelock.mag).sum
            early == LtW(Wide(now), due)
        IN \A a \in Identities :
               ExecuteUpgradeAccounts(a) =>
                   LET o == execute_upgrade(a)
                       may == can_manage_upgrades(roles[a])
                   IN /\ early => /\ o.err # "Ok"
                                  /\ o.vault = vault
                                  /\ may => o.err = "TimelockNotExpired"
                      /\ ~may => o.err = "InsufficientPermissions"
                      /\ ~early /\ may =>
                             /\ o.err = "Ok"
                             /\ o.vault.version = vault.pending_upgrade.new_version
                             /\ ~o.vault.pending_upgrade.some

\* a proposal with timelock i64::MAX that can be executed at the time it was
\* made: without overflow-checks the scheduled time has wrapped below zero
C13_ExecutedBeforeDue ==
    /\ vault.pending_upgrade.some
    /\ gov.timelock.mag = I64_MAX
    /\ now = gov.proposed_at
    /\ vault.pending_upgrade.scheduled_timestamp.neg
    /\ execute_upgrade("ad").err = "Ok"
    /\ execute_upgrade("ad").vault.version = 2

\* C14: once upgrades are locked they stay locked, no proposal is pending,
\* every propose_upgrade fails with UpgradesLocked, every lock_upgrades fails
\* (with UpgradesAlreadyLocked for a caller who may manage upgrades), and the
\* version does not change any more.
C14_LockIsTerminal ==
    /\ [](vault.upgrade_locked =>
            /\ ~vault.pending_upgrade.some
            /\ \A a \in Identities :
                  LockUpgradesAccounts(a) =>
                      /\ \A nv \in NewVersions, tl \in Timelocks :
                             propose_upgrade(a, nv, tl).err = "UpgradesLocked"
                      /\ lock_upgrades(a).err # "Ok"
                      /\ can_manage_upgrades(roles[a]) =>
                             lock_upgrades(a).err = "UpgradesAlreadyLocked"
                      /\ execute_upgrade(a).err # "Ok")
    /\ [][vault.upgrade_locked =>
            /\ vault'.upgrade_locked
            /\ vault'.version = vault.version
            /\ vault'.pending_upgrade = vault.pending_upgrade]_vars

\* locked after one upgrade was executed, and time has passed since
C14_Witness ==
    /\ vault.upgrade_locked
    /\ vault.version = 2
    /\ ticks = 2
    /\ lock_upgrades("sa").err = "UpgradesAlreadyLocked"

\* C15: propose_upgrade fails and leaves the vault as it is whenever upgrades
\* are locked, a proposal is pending, new_version <= version or
\* timelock_seconds < 3600; otherwise, for a caller who may manage upgrades,
\* it stores the proposal scheduled at now + timelock_seconds and nothing
\* else; a pending proposal is never replaced by another one.
C15_ProposeGuards ==
    /\ [](\A a \in Identities :
            ProposeUpgradeAccounts(a) =>
                \A nv \in NewVersions, tl \in Timelocks :
                    LET o == propose_upgrade(a, nv, tl)
                        bad == \/ vault.upgrade_locked
                               \/ vault.pending_upgrade.some
                               \/ nv <= vault.version
                               \/ ~ge_i64(tl, I64(3600))
                        sum == [neg |-> FALSE,
                                mag |-> AddW(Wide(now), tl.mag).sum]
                    IN /\ bad => o.err # "Ok" /\ o.vault = vault
                       /\ ~bad /\ can_manage_upgrades(roles[a]) =>
                              /\ o.err = "Ok"
                              /\ o.vault = [vault EXCEPT !.pending_upgrade =
                                     [some |-> TRUE, new_version |-> nv,
                                      scheduled_timestamp |-> sum,
                                      proposer |-> a]])
    /\ [][vault.pending_upgrade.some /\ vault'.pending_upgrade.some =>
              vault'.pending_upgrade = vault.pending_upgrade]_vars

\* a second proposal is pending, the first one having been executed, and its
\* scheduled time is not the sum of the time it was made and its timelock
C15_ScheduleIsNotSum ==
    /\ vault.version = 2
    /\ vault.pending_upgrade.some
    /\ vault.pending_upgrade.new_version = 3
    /\ vault.pending_upgrade.scheduled_timestamp #
           [neg |-> FALSE,
            mag |-> AddW(Wide(gov.proposed_at), gov.timelock.mag).sum]
    /\ propose_upgrade("sa", 3, I64(3600)).err = "UpgradePending"

----------------------------------------------------------------------------
(* Properties of the circuit breaker *)

\* C16: after 10 on_failure calls from the fresh state the breaker is blocked;
\* can_execute is then false while now - last_failure_timestamp <= 600 and
\* true, with blocked still set, once it is > 600; and blocked is cleared only
\* by an on_success that brings failure_count to 0.
C16_BreakerTrip ==
    /\ [](LET cb == vault.circuit_breaker
          IN cb.total_transactions = Wide(10) /\ cb.failed_transactions = Wide(10) =>
                 /\ cb.blocked
                 /\ cb.failure_count = Wide(10)
                 /\ now - cb.last_failure_timestamp <= 600 => ~can_execute(cb, now)
                 /\ now - cb.last_failure_timestamp > 600 => can_execute(cb, now))
    /\ [][LET cb == vault.circuit_breaker
          IN cb.blocked /\ ~vault'.circuit_breaker.blocked =>
                 /\ vault'.circuit_breaker = on_success(cb).val
                 /\ cb.failure_count = One
                 /\ vault'.circuit_breaker.failure_count = Zero]_vars

\* tripped by 10 failures in a row, blocked cleared by the 10th success after
\* the timeout
C16_Witness ==
    LET cb == vault.circuit_breaker
    IN /\ cb.total_transactions = Wide(20) /\ cb.failed_transactions = Wide(10)
       /\ ~cb.blocked /\ cb.failure_count = Zero
       /\ now - cb.last_failure_timestamp > 600

\* C17 as stated: in every breaker state can_execute(now) is true exactly when
\* blocked is false or now - last_failure_timestamp > 600.
C17_CanExecuteTwoCases ==
    LET cb == vault.circuit_breaker
    IN can_execute(cb, now) <=>
           (~cb.blocked \/ now - cb.last_failure_timestamp > 600)

\* C17 amended: can_execute(now) is true exactly when blocked is false, or
\* now - last_failure_timestamp > 600, or failure_count < 10; so it is false
\* when the breaker is blocked with failure_count >= 10 and the timeout has
\* not passed.
C17_CanExecuteThreeCases ==
    LET cb == vault.circuit_breaker
    IN /\ can_execute(cb, now) <=>
              (\/ ~cb.blocked
               \/ now - cb.last_failure_timestamp > 600
               \/ LtW(cb.failure_count, Wide(10)))
       /\ (cb.blocked /\ LeqW(Wide(10), cb.failure_count)
             /\ now - cb.last_failure_timestamp <= 600) => ~can_execute(cb, now)

\* blocked, one success has decayed the count, a failure has restarted the
\* timeout: can_execute is true inside the timeout
C17_Witness ==
    LET cb == vault.circuit_breaker
    IN /\ cb.blocked
       /\ LtW(cb.failure_count, Wide(10))
       /\ now - cb.last_failure_timestamp <= 600
       /\ cb.last_failure_timestamp = now
       /\ ticks > 0
       /\ can_execute(cb, now)

----------------------------------------------------------------------------
(* Properties of the daily limits *)

\* C18: once stakes_today has reached max_stakes_per_day, can_stake is false
\* and, unless a new day resets the counters, the next stake_nft fails with
\* DailyLimitExceeded; reset_if_new_day(now) with
\* now - last_reset_timestamp > 86400 zeroes the three counters and sets
\* last_reset_timestamp = now, and with <= 86400 changes nothing.
C18_StakeQuota ==
    LET dl == vault.daily_limit
        r == reset_if_new_day(dl, now)
    IN vault.initialized =>
           /\ dl.stakes_today = dl.max_stakes_per_day =>
                  /\ ~can_stake(dl)
                  /\ now - dl.last_reset_timestamp <= 86400 =>
                         \A u \in Users, i \in Items :
                             StakeNftAccounts(u, i) =>
                                 stake_nft(u, i).err = "DailyLimitExceeded"
           /\ now - dl.last_reset_timestamp > 86400 =>
                  r = [dl EXCEPT !.stakes_today = Zero, !.claims_today = Zero,
                                 !.rewards_claimed_today = Zero,
                                 !.last_reset_timestamp = now]
           /\ now - dl.last_reset_timestamp <= 86400 => r = dl

\* the quota is used up, claims have been counted too, and exactly a day has
\* passed since the reset: the next stake is rejected
C18_Witness ==
    LET dl == vault.daily_limit
    IN /\ dl.stakes_today = Wide(100)
       /\ LtW(Zero, dl.claims_today)
       /\ now - dl.last_reset_timestamp = 86400
       /\ stake_nft("u1", "n1").err = "DailyLimitExceeded"

\* C19: stakes_today, claims_today and rewards_claimed_today never exceed
\* their maxima; every claim that is counted adds its amount to
\* rewards_claimed_today, which starts from 0 at a reset, so the amount
\* claimed between two resets is within max_total_rewards_per_day.
C19_CountersWithinCaps ==
    /\ [](LET dl == vault.daily_limit
          IN /\ LeqW(dl.stakes_today, dl.max_stakes_per_day)
             /\ LeqW(dl.claims_today, dl.max_claims_per_day)
             /\ LeqW(dl.rewards_claimed_today, dl.max_total_rewards_per_day)
             /\ dl.max_stakes_per_day = Wide(100)
             /\ dl.max_claims_per_day = Wide(50)
             /\ dl.max_total_rewards_per_day = Wide(1000000000))
    /\ [][LET dl == vault.daily_limit
              new == vault'.daily_limit
              reset == now - dl.last_reset_timestamp > 86400
              base == IF reset THEN Zero ELSE dl.rewards_claimed_today
              count == IF reset THEN Zero ELSE dl.claims_today
          IN (vault.initialized /\ new.claims_today # dl.claims_today
                /\ new.claims_today # Zero) =>
                 /\ \E reward_amount \in ClaimAmounts :
                        /\ AddW(base, reward_amount).carry = 0
                        /\ new.rewards_claimed_today = AddW(base, reward_amount).sum
                 /\ new.claims_today = AddW(count, One).sum]_vars

\* both counts are at their maxima on the second day, the payout at
\* 600 000 049 of 1 000 000 000: no further claim is admitted
C19_Witness ==
    LET dl == vault.daily_limit
    IN /\ dl.claims_today = Wide(50)
       /\ dl.rewards_claimed_today = Wide(600000049)
       /\ dl.stakes_today = Wide(100)
       /\ ticks = 2
       /\ ~can_claim(dl, One)

----------------------------------------------------------------------------
(* Properties of the per-user gaps *)

\* C20: a successful stake_nft of a user who has staked before, and every
\* successful unstake_nft, happens at least 300 seconds after the user's
\* previous successful stake, unstake or claim, and a successful claim_rewards
\* at least 60 seconds after it; an earlier attempt fails and changes nothing.
C20_MinimumGaps ==
    /\ [][\A u \in Users :
            LET us == user_stake[u]
                gap == now - us.last_update_timestamp
            IN /\ (us.exists
                   /\ user_stake'[u].staked_nfts = AddW(us.staked_nfts, One).sum)
                      => gap >= 300
               /\ us.staked_nfts = AddW(user_stake'[u].staked_nfts, One).sum
                      => gap >= 300
               /\ minted'[u] # minted[u] => gap >= 60]_vars
    /\ [](\A u \in Users :
            LET us == user_stake[u]
                gap == now - us.last_update_timestamp
            IN us.exists =>
                   /\ gap < 300 =>
                          /\ \A i \in Items :
                                 StakeNftAccounts(u, i) =>
                                     /\ stake_nft(u, i).err # "Ok"
                                     /\ stake_nft(u, i).user_stake = us
                                     /\ stake_nft(u, i).vault = vault
                          /\ \A i \in Items :
                                 UnstakeNftAccounts(u, i) =>
                                     /\ unstake_nft(u, i).err # "Ok"
                                     /\ unstake_nft(u, i).user_stake = us
                                     /\ unstake_nft(u, i).vault = vault
                   /\ gap < 60 =>
                          /\ claim_rewards(u).err # "Ok"
                          /\ claim_rewards(u).user_stake = us
                          /\ claim_rewards(u).vault = vault)

----------------------------------------------------------------------------
(* Properties of the arithmetic *)

\* the product of three unsigned values does not exceed u64::MAX
ProductFits(a, b, c) ==
    \/ a = Zero \/ b = Zero \/ c = Zero
    \/ /\ MulW(a, b).hi = Zero
       /\ MulW(MulW(a, b).lo, c).hi = Zero
       /\ LeqW(MulW(MulW(a, b).lo, c).lo, U64_MAX)

\* the product itself, a factor of 0 taken first
Product(a, b, c) ==
    IF a = Zero \/ b = Zero \/ c = Zero THEN Zero
    ELSE MulW(MulW(a, b).lo, c).lo

\* C21 as stated: accrue(elapsed, rate, count) fails with the elapsed-time
\* error when elapsed is negative or above 172800; otherwise it returns
\* exactly elapsed * rate * count whenever that product fits in u64 and fails
\* with the overflow error when the product does not fit.
C21_ProductWheneverItFits ==
    calc.rewards # NoOut =>
        LET e == calc.time_elapsed
            r == calc.reward_rate_per_second
            n == calc.staked_nfts
        IN /\ (e < 0 \/ e > 172800) => calc.rewards = Err("InvalidTimeElapsed")
           /\ (e >= 0 /\ e <= 172800 /\ ProductFits(Wide(e), r, n))
                  => calc.rewards = Ok(Product(Wide(e), r, n))
           /\ (e >= 0 /\ e <= 172800 /\ ~ProductFits(Wide(e), r, n))
                  => calc.rewards = Err("MathOverflow")

\* C21 amended: accrue(elapsed, rate, count) fails with the elapsed-time
\* error when elapsed is negative or above 172800; otherwise it returns
\* exactly elapsed * rate * count when both elapsed * rate and the whole
\* product fit in u64, and fails with the overflow error when either does
\* not, which includes a count of 0 whose product is 0; it never returns a
\* wrapped value.
C21_ProductWhenEachStepFits ==
    calc.rewards # NoOut =>
        LET e == calc.time_elapsed
            r == calc.reward_rate_per_second
            n == calc.staked_nfts
            fits == ProductFits(Wide(e), r, One) /\ ProductFits(Wide(e), r, n)
        IN /\ (e < 0 \/ e > 172800) => calc.rewards = Err("InvalidTimeElapsed")
           /\ (e >= 0 /\ e <= 172800 /\ fits)
                  => calc.rewards = Ok(Product(Wide(e), r, n))
           /\ (e >= 0 /\ e <= 172800 /\ ~fits)
                  => calc.rewards = Err("MathOverflow")

\* a count of 0 after an intermediate product that does not fit: the rate is
\* one above the largest whose product with 172800 fits
C21_Witness ==
    /\ calc.rewards = Err("MathOverflow")
    /\ calc.time_elapsed = 172800
    /\ calc.reward_rate_per_second = <<0, 106, 7519, 9116, 7301>>
    /\ calc.staked_nfts = Zero

\* C22: an arithmetic step of claimRewards that would leave the range of its
\* type makes the operation fail with an overflow error, and no operation
\* succeeds with a wrapped value compared or stored: whenever a claim_rewards
\* call reaches the daily-limit check with the claims of the day below their
\* cap and the day's total plus the amount exceeds u64::MAX, the call fails
\* with the overflow error (or the program aborts on the overflow), and a
\* call that succeeds stores the sum as the day's total.  The day's total is
\* the one reset_if_new_day leaves.
C22_NoWrappedArithmetic ==
    \A u \in Users :
        ClaimRewardsAccounts(u) =>
            \A o \in {claim_rewards(u)},
               tot \in {claim_total(vault, user_stake[u], now)},
               dl \in {reset_if_new_day(vault.daily_limit, now)} :
                LET reached == /\ claim_checks(vault, user_stake[u], now) = "Ok"
                               /\ tot.err = "Ok"
                               /\ LtW(dl.claims_today, dl.max_claims_per_day)
                    sum == AddW(dl.rewards_claimed_today, tot.val)
                    leaves_range == sum.carry # 0 \/ LtW(U64_MAX, sum.sum)
                IN /\ (reached /\ leaves_range)
                          => o.err \in {"MathOverflow", "Panic"}
                   /\ o.err = "Ok" =>
                          /\ ~leaves_range
                          /\ o.vault.daily_limit.rewards_claimed_today = sum.sum

\* u2 has claimed 600000000 and, 60 s after its last unstake, u1's claim of
\* 18446744073700000000 passes the daily limit on the wrapped sum 590448384
\* and is rejected by the cap that follows
C22_WrappedSumCompared ==
    /\ ~overflow_checks
    /\ vault.daily_limit.rewards_claimed_today = Wide(600000000)
    /\ reset_if_new_day(vault.daily_limit, now) = vault.daily_limit
    /\ claim_total(vault, user_stake["u1"], now) =
           Ok(<<1844, 6744, 737, 0, 0>>)
    /\ can_claim(vault.daily_limit, <<1844, 6744, 737, 0, 0>>)
    /\ claim_rewards("u1").err = "ExcessiveRewardClaim"

----------------------------------------------------------------------------
(* Properties of the breaker inside the vault *)

\* C24: through the instructions the breaker never trips: no instruction
\* calls on_failure, so in every state reachable from initialize_vault the
\* breaker is not blocked, failure_count and failed_transactions are 0, and no
\* stake_nft or claim_rewards fails with CircuitBreakerActive.
C24_BreakerNeverTrips ==
    LET cb == vault.circuit_breaker
    IN /\ ~cb.blocked
       /\ cb.failure_count = Zero
       /\ cb.failed_transactions = Zero
       /\ can_execute(cb, now)
       /\ \A u \in Users, i \in Items :
             StakeNftAccounts(u, i) => stake_nft(u, i).err # "CircuitBreakerActive"
       /\ \A u \in Users :
             ClaimRewardsAccounts(u) => claim_rewards(u).err # "CircuitBreakerActive"

\* three transactions have been counted, and calls are failing
C24_Witness ==
    /\ vault.circuit_breaker.total_transactions = Wide(3)
    /\ minted["u1"] > 0
    /\ claim_rewards("u1").err = "TooFrequentClaim"
    /\ \E i \in Items :
          /\ StakeNftAccounts("u1", i)
          /\ stake_nft("u1", i).err = "TooFrequent"

----------------------------------------------------------------------------
(* Properties of withdrawal *)

\* C25: a user with at least one staked item can always withdraw: whenever
\* the vault is not paused, the user's staked count is at least 1 and 300
\* seconds or more have passed since the user's last operation, unstake_nft of
\* an item in custody succeeds; no user with staked items has stake, unstake
\* and claim all rejected.
C25_CanAlwaysWithdraw ==
    \A u \in Users, i \in Items :
        (/\ UnstakeNftAccounts(u, i)
         /\ holder[i] = VaultPda
         /\ ~vault.paused
         /\ LeqW(One, user_stake[u].staked_nfts)
         /\ now - user_stake[u].last_update_timestamp >= 300)
            => unstake_nft(u, i).err = "Ok"

\* a user with a staked item whose every stake, unstake and claim is rejected
\* with the elapsed-time error, the vault not being paused
C25_LockedOut ==
    \E u \in Users :
        /\ ~vault.paused
        /\ LeqW(One, user_stake[u].staked_nfts)
        /\ now - user_stake[u].last_update_timestamp > MAX_TIME_ELAPSED
        /\ claim_rewards(u).err = "InvalidTimeElapsed"
        /\ \A i \in Items :
              /\ StakeNftAccounts(u, i) =>
                     stake_nft(u, i).err # "Ok"
              /\ (UnstakeNftAccounts(u, i) /\ holder[i] = VaultPda) =>
                     unstake_nft(u, i).err = "InvalidTimeElapsed"
        /\ \E i \in Items :
              /\ UnstakeNftAccounts(u, i) /\ holder[i] = VaultPda
              /\ depositor[i] = u

\* C26: a user whose staked count is 0 never completes a claim: every
\* claim_rewards of such a user fails and changes nothing, and once the pause
\* switch, the claim gap, the accrual window and the daily limit let it
\* through it fails with NoRewardsToClaim when pending_rewards is 0 and with
\* ExcessiveRewardClaim when it is positive, the one-day cap being 0; the
\* reward accrued before the last unstake stays in pending_rewards, and is
\* not minted, for as long as the staked count is 0.
C26_ZeroStakeNeverClaims ==
    /\ [](\A u \in Users :
            (ClaimRewardsAccounts(u) /\ user_stake[u].staked_nfts = Zero) =>
                LET us == user_stake[u]
                    o == claim_rewards(u)
                    dl == reset_if_new_day(vault.daily_limit, now)
                    gap == now - us.last_update_timestamp
                IN /\ o.err # "Ok"
                   /\ o.amount = Zero
                   /\ o.user_stake = us
                   /\ o.vault = vault
                   /\ (/\ ~vault.paused
                       /\ gap >= 60 /\ gap <= 172800
                       /\ can_claim(dl, us.pending_rewards))
                          => o.err = IF us.pending_rewards = Zero
                                     THEN "NoRewardsToClaim"
                                     ELSE "ExcessiveRewardClaim")
    /\ [][\A u \in Users :
            (user_stake[u].exists /\ user_stake[u].staked_nfts = Zero) =>
                /\ user_stake'[u].pending_rewards = user_stake[u].pending_rewards
                /\ minted'[u] = minted[u]]_vars

\* a user who has unstaked everything, with reward pending, whose claim gets
\* as far as the one-day cap
C26_Witness ==
    \E u \in Users :
        /\ result.op = "unstake_nft" /\ result.caller = u
        /\ user_stake[u].staked_nfts = Zero
        /\ LtW(Zero, user_stake[u].pending_rewards)
        /\ now - user_stake[u].last_update_timestamp >= 60
        /\ claim_rewards(u).err = "ExcessiveRewardClaim"

----------------------------------------------------------------------------
(* Properties of the role accounts *)

\* C27: role accounts change only through grant_role called by a SuperAdmin,
\* and initialize_vault creates none; so on a deployment without role
\* accounts no instruction ever gives an identity a role, and every
\* role-gated instruction is rejected in every reachable state.
C27_NoRolesFromNothing ==
    /\ [][/\ (roles' # roles \/ role_user' # role_user) =>
            (\E g \in Identities, target \in Identities :
                /\ roles[g] = "SuperAdmin"
                /\ ManageRoleAccounts(g, target)
                /\ roles'[target] \in RoleNames
                /\ role_user'[target] \in Identities
                /\ grant_role(g, target, role_user'[target],
                              roles'[target]).err = "Ok"
                /\ roles' = [roles EXCEPT ![target] = roles'[target]]
                /\ role_user' = [role_user EXCEPT
                                    ![target] = role_user'[target]])
          /\ vault'.initialized # vault.initialized =>
                (roles' = roles /\ role_user' = role_user)
          /\ roles = NoRoles => roles' = NoRoles]_vars
    /\ [](roles = NoRoles =>
            /\ \A a \in Identities :
                  /\ ~PauseVaultAccounts(a)
                  /\ pause_vault(a).err # "Ok" /\ unpause_vault(a).err # "Ok"
                  /\ ~UpdateConfigAccounts(a)
                  /\ \A c \in NewConfigs : update_config(a, c[1], c[2]).err # "Ok"
                  /\ ~ProposeUpgradeAccounts(a)
                  /\ \A nv \in NewVersions, tl \in Timelocks :
                         propose_upgrade(a, nv, tl).err # "Ok"
                  /\ ~ExecuteUpgradeAccounts(a) /\ execute_upgrade(a).err # "Ok"
                  /\ ~CancelUpgradeAccounts(a) /\ cancel_upgrade(a).err # "Ok"
                  /\ ~LockUpgradesAccounts(a) /\ lock_upgrades(a).err # "Ok"
            /\ \A g \in Identities, target \in Identities :
                  /\ ~ManageRoleAccounts(g, target)
                  /\ revoke_role(g, target).err # "Ok"
                  /\ \A user \in Identities, role \in RoleNames :
                         grant_role(g, target, user, role).err # "Ok")

\* the vault of a deployment without role accounts, initialised, after the
\* clock has advanced as often as it may
C27_Witness ==
    /\ roles = NoRoles
    /\ vault.initialized
    /\ ticks = MaxGovTicks
    /\ ~vault.paused
    /\ pause_vault("sa").err = "InsufficientPermissions"
    /\ grant_role("sa", "mo", "mo", "Operator").err = "InsufficientPermissions"

----------------------------------------------------------------------------
(* Properties of the version *)

\* C28: in every reachable state a pending proposal has a new_version above
\* the current version and upgrade_locked is false; the version is 1 after
\* initialize_vault, never decreases, and every successful execute_upgrade
\* sets it to the proposal's new_version, which is strictly greater.
C28_VersionOnlyGrows ==
    /\ [](vault.pending_upgrade.some =>
            /\ vault.pending_upgrade.new_version > vault.version
            /\ ~vault.upgrade_locked)
    /\ [](vault.initialized => vault.version >= 1)
    /\ [](\A a \in Identities :
            (ExecuteUpgradeAccounts(a) /\ execute_upgrade(a).err = "Ok") =>
                /\ execute_upgrade(a).vault.version > vault.version
                /\ execute_upgrade(a).vault.version
                       = vault.pending_upgrade.new_version)
    /\ [][(~vault.initialized /\ vault'.initialized) => vault'.version = 1]_vars
    /\ [][vault.initialized => vault'.version >= vault.version]_vars
    /\ [][(vault.initialized /\ vault'.version # vault.version) =>
            (vault.pending_upgrade.some /\ ~vault'.pending_upgrade.some)]_vars

\* version 2 after one upgrade, and a second proposal ready to be executed
C28_Witness ==
    /\ vault.version = 2
    /\ vault.pending_upgrade.some
    /\ vault.pending_upgrade.new_version = 3
    /\ ~vault.upgrade_locked
    /\ execute_upgrade("sa").err = "Ok"
    /\ execute_upgrade("sa").vault.version = 3

----------------------------------------------------------------------------
(* Properties of the events *)

\* a call that succeeds emits exactly one event, a call that fails emits none
OneEventIfOk(err, events) ==
    IF err = "Ok" THEN Len(events) = 1 ELSE events = <<>>

\* the twelve instructions other than initialize_vault
C23_AfterInitialisation ==
    /\ \A u \in Users, i \in Items :
          /\ StakeNftAccounts(u, i) =>
                 OneEventIfOk(stake_nft(u, i).err, stake_nft_events(u, i))
          /\ UnstakeNftAccounts(u, i) =>
                 OneEventIfOk(unstake_nft(u, i).err, unstake_nft_events(u, i))
    /\ \A u \in Users :
          ClaimRewardsAccounts(u) =>
              OneEventIfOk(claim_rewards(u).err, claim_rewards_events(u))
    /\ \A a \in Identities :
          /\ PauseVaultAccounts(a) =>
                 /\ OneEventIfOk(pause_vault(a).err, pause_vault_events(a))
                 /\ OneEventIfOk(unpause_vault(a).err, unpause_vault_events(a))
          /\ ExecuteUpgradeAccounts(a) =>
                 OneEventIfOk(execute_upgrade(a).err, execute_upgrade_events(a))
          /\ CancelUpgradeAccounts(a) =>
                 OneEventIfOk(cancel_upgrade(a).err, cancel_upgrade_events(a))
          /\ LockUpgradesAccounts(a) =>
                 OneEventIfOk(lock_upgrades(a).err, lock_upgrades_events(a))
          /\ ProposeUpgradeAccounts(a) =>
                 \A nv \in NewVersions, tl \in Timelocks :
                     OneEventIfOk(propose_upgrade(a, nv, tl).err,
                                  propose_upgrade_events(a, nv, tl))
          /\ UpdateConfigAccounts(a) =>
                 \A c \in NewConfigs :
                     OneEventIfOk(update_config(a, c[1], c[2]).err,
                                  update_config_events(a, c[1], c[2]))
    /\ \A g \in Identities, target \in Identities :
          ManageRoleAccounts(g, target) =>
              /\ OneEventIfOk(revoke_role(g, target).err,
                              revoke_role_events(g, target))
              /\ \A user \in Identities, role \in RoleNames :
                     OneEventIfOk(grant_role(g, target, user, role).err,
                                  grant_role_events(g, target, user, role))

\* C23: each successful call of initializeVault, stakeItem, unstakeItem,
\* claimRewards, pauseVault, unpauseVault, grantRole, revokeRole,
\* proposeUpgrade, executeUpgrade, cancelUpgrade, lockUpgrades and
\* updateConfig emits exactly one event, and a failed call emits none.
C23_OneEventPerSuccess ==
    /\ \A a \in Admins, rate \in Rates \cup {Zero}, coll \in Collections :
          InitializeVaultAccounts =>
              OneEventIfOk(initialize_vault(a, rate, coll).err,
                           initialize_vault_events(a, rate, coll))
    /\ C23_AfterInitialisation

====
